---------------------------- MODULE Spec2Model ----------------------------
(***************************************************************************)
(* Sudoku engine: the Dancing Links exact-cover solver of src/sudoku.c     *)
(* (pointer nodes; src/unnamed/part_002 is the same code under longer      *)
(* names) and of src/unnamed/part_001 (static index arrays).               *)
(*                                                                         *)
(* Nodes are numbered the same way for both solvers: column header i is    *)
(* node i (0..323), the root header is node 324, and the nodes of the      *)
(* candidate rows are 325, 326, ... in the order in which they are         *)
(* created.  For sudoku.c a node number stands for the address calloc      *)
(* returned.                                                               *)
(*                                                                         *)
(* Three behaviours are specified.  Spec and SpecLinks run one solve of a  *)
(* given grid.  SpecGen deals a new game: start_new_game of src/sudoku.c   *)
(* and generateNewPuzzle of src/unnamed/part_001, the latter calling the   *)
(* solver on the puzzle it made.  SpecPure applies single functions        *)
(* (decoders, makePuzzleSimple, the difficulty mappings, the placement     *)
(* tests) to arguments drawn from bounded sets.                            *)
(***************************************************************************)
EXTENDS Integers, Sequences, FiniteSets, TLC

(* ---------------- program constants ---------------- *)
SIZE == 9
SUBGRID == 3
DLX_COLS == 324
DLX_ROWS == 729
SOLUTION_LEN == 81
NULL == 0 - 1
INT_MAX == 2147483647
BIG == 1000000000

(* ---------------- bounds of the explored inputs ---------------- *)
\* the first MaxHoles cells (row-major) of the base grid may be emptied
MaxHoles == 26

Idx == 0 .. (SIZE - 1)
Digits == 1 .. 9

(* The solved grid of the canonical 17-clue puzzle of the specification.  *)
BaseGrid ==
  << <<8,3,9,4,6,5,7,1,2>>,
     <<1,4,6,7,8,2,9,5,3>>,
     <<7,5,2,3,9,1,4,8,6>>,
     <<3,9,1,8,2,4,6,7,5>>,
     <<5,6,4,1,7,3,8,2,9>>,
     <<2,8,7,6,5,9,3,4,1>>,
     <<6,2,8,5,3,7,1,9,4>>,
     <<9,1,3,2,4,8,5,6,7>>,
     <<4,7,5,9,1,6,2,3,8>> >>

\* a grid is a function [Idx -> [Idx -> 0..9]], grid[r][c]
GridOf(rows) == [r \in Idx |-> [c \in Idx |-> rows[r + 1][c + 1]]]

ZeroGrid == [r \in Idx |-> [c \in Idx |-> 0]]

\* the base grid with its first n cells in row-major order emptied
WithHoles(n) ==
  [r \in Idx |-> [c \in Idx |->
      IF r * SIZE + c < n THEN 0 ELSE BaseGrid[r + 1][c + 1]]]

\* cells whose value the explored inputs may overwrite: one inside the
\* emptied region and one among the clues
AlterCells == { <<0, 0>>, <<8, 8>> }

\* the values written into an altered cell
AlterVals == { 1, 9 }

HoleChoices == { 0, MaxHoles \div 2, MaxHoles }

\* the canonical minimal 17-clue puzzle of the specification
CanonicalPuzzle ==
  << <<0,0,0,0,0,0,0,1,2>>,
     <<0,0,0,0,0,0,0,0,3>>,
     <<0,0,2,3,0,0,4,0,0>>,
     <<0,0,1,8,0,0,0,0,5>>,
     <<0,6,0,0,7,0,8,0,0>>,
     <<0,0,0,0,0,9,0,0,0>>,
     <<0,0,8,5,0,0,0,0,0>>,
     <<9,0,0,0,4,0,5,0,0>>,
     <<4,7,0,0,0,6,0,0,0>> >>

\* a grid with no duplicate digit and no completion: the 8 placed in the
\* fifth cell of the first row fits its row, column and box but not the rest
DeadEndGrid == [WithHoles(MaxHoles \div 2 + 1) EXCEPT ![0][4] = 8]

\* complete rule-valid grids other than the base grid: its transpose and the
\* base grid with every digit d replaced by 10 - d
SolvedGrids ==
  { [r \in Idx |-> [c \in Idx |-> BaseGrid[c + 1][r + 1]]],
    [r \in Idx |-> [c \in Idx |-> 10 - BaseGrid[r + 1][c + 1]]] }

InputGrids ==
  { GridOf(CanonicalPuzzle), DeadEndGrid }
  \cup SolvedGrids
  \cup { WithHoles(n) : n \in HoleChoices }
  \cup { [WithHoles(n) EXCEPT ![rc[1]][rc[2]] = v] :
           n \in HoleChoices, rc \in AlterCells, v \in AlterVals }

\* the inputs of the link-structure checks: a grid solved after giving up
\* branches, a grid refused after a long descent, a grid with a duplicate
LinkGrids ==
  { WithHoles(MaxHoles), DeadEndGrid,
    [WithHoles(MaxHoles) EXCEPT ![SIZE - 1][SIZE - 1] = 9] }

(* ---------------- the DLX node store ---------------- *)
header == DLX_COLS

\* number of candidate rows the builders create for a grid
CandidateCount(grid) ==
  SIZE * SIZE
  + 8 * Cardinality({ rc \in Idx \X Idx : grid[rc[1]][rc[2]] = 0 })

\* loops over the 324 columns or the 81 cells are evaluated in blocks of
\* Block iterations.  A loop operator that tests nodeCnt < 0 (or a cell < 0)
\* beside its exit condition never exits by that test, no count being
\* negative: the test makes the store built so far be evaluated before the
\* next iteration starts.
Block == 2 * SIZE

\* zero-filled storage for all the nodes a solve of grid uses
ZeroStore(grid) ==
  LET n == DLX_COLS + 1 + 4 * CandidateCount(grid)
      z == [i \in 0 .. (n - 1) |-> 0]
  IN [left |-> z, right |-> z, up |-> z, down |-> z, column |-> z,
      size |-> z, row_id |-> z, nodeCnt |-> 0, rowhead |-> << >>]


(* ---------------- src/sudoku.c: node store and matrix ---------------- *)

\* create_node: a fresh node whose four links point to itself
create_node(m, n) ==
  [m EXCEPT !.left[n] = n, !.right[n] = n, !.up[n] = n, !.down[n] = n,
            !.column[n] = NULL, !.row_id[n] = NULL, !.size[n] = 0,
            !.nodeCnt = m.nodeCnt + 1]

\* init_dlx_solver, lines 275-290: the root header and the 324 column
\* headers, each made by create_node and chained to the right of the one
\* before it in index order, the list closed on the root header
link_columns(m) ==
  LET isH(n) == n <= DLX_COLS
  IN [m EXCEPT
        !.left = [n \in DOMAIN m.left |->
                    IF n = header THEN DLX_COLS - 1
                    ELSE IF n = 0 THEN header
                    ELSE IF isH(n) THEN n - 1 ELSE m.left[n]],
        !.right = [n \in DOMAIN m.right |->
                    IF n = header THEN 0
                    ELSE IF n = DLX_COLS - 1 THEN header
                    ELSE IF isH(n) THEN n + 1 ELSE m.right[n]],
        !.up = [n \in DOMAIN m.up |-> IF isH(n) THEN n ELSE m.up[n]],
        !.down = [n \in DOMAIN m.down |-> IF isH(n) THEN n ELSE m.down[n]],
        !.column = [n \in DOMAIN m.column |->
                    IF n = header THEN NULL
                    ELSE IF isH(n) THEN n ELSE m.column[n]],
        !.row_id = [n \in DOMAIN m.row_id |->
                    IF isH(n) THEN NULL ELSE m.row_id[n]],
        !.size = [n \in DOMAIN m.size |-> IF isH(n) THEN 0 ELSE m.size[n]],
        !.nodeCnt = DLX_COLS + 1]

\* faulty variant: the box index taken from the column's remainder
constraints_box_by_rem(r, c, num) ==
  LET box == (r \div 3) * 3 + (c % 3)
  IN << r * 9 + c,
        81 + r * 9 + (num - 1),
        162 + c * 9 + (num - 1),
        243 + box * 9 + (num - 1) >>

\* the four constraint columns of candidate (r, c, num)
constraints(r, c, num) ==
  LET box == (r \div 3) * 3 + (c \div 3)
  IN << r * 9 + c,
        81 + r * 9 + (num - 1),
        162 + c * 9 + (num - 1),
        243 + box * 9 + (num - 1) >>

\* init_dlx_solver, innermost loop: the i-th node of one candidate row
RECURSIVE AddRowNodes(_, _, _, _, _)
AddRowNodes(m, row_id, cols, i, prev_node) ==
  IF i > 4 \/ m.nodeCnt < 0 THEN m
  ELSE LET node == m.nodeCnt
           col  == cols[i]
           m1 == create_node(m, node)
           m2 == [m1 EXCEPT !.row_id[node] = row_id, !.column[node] = col]
           m3 == [m2 EXCEPT !.up[node] = m2.up[col]]
           m4 == [m3 EXCEPT !.down[node] = col]
           m5 == [m4 EXCEPT !.down[m4.up[col]] = node]
           m6 == [m5 EXCEPT !.up[col] = node]
           m7 == [m6 EXCEPT !.size[col] = m6.size[col] + 1]
           m8 == IF prev_node = NULL
                 THEN [m7 EXCEPT !.left[node] = node, !.right[node] = node]
                 ELSE LET a == [m7 EXCEPT !.left[node] = prev_node]
                          b == [a EXCEPT !.right[node] = a.right[prev_node]]
                          c == [b EXCEPT !.left[b.right[prev_node]] = node]
                      IN [c EXCEPT !.right[prev_node] = node]
       IN AddRowNodes(m8, row_id, cols, i + 1, node)

\* init_dlx_solver, loop over num for one cell
RECURSIVE AddCellRows(_, _, _, _, _)
AddCellRows(m, r, c, num, end_num) ==
  IF num > end_num \/ m.nodeCnt < 0 THEN m
  ELSE AddCellRows(
         AddRowNodes(m, r * 81 + c * 9 + (num - 1), constraints(r, c, num), 1, NULL),
         r, c, num + 1, end_num)

\* init_dlx_solver, loop over c for one r
RECURSIVE AddCells(_, _, _, _)
AddCells(m, grid, r, c) ==
  IF c = SIZE \/ m.nodeCnt < 0 THEN m
  ELSE LET start_num == IF grid[r][c] # 0 THEN grid[r][c] ELSE 1
           end_num   == IF grid[r][c] # 0 THEN grid[r][c] ELSE 9
       IN AddCells(AddCellRows(m, r, c, start_num, end_num), grid, r, c + 1)

\* init_dlx_solver, loop over r
RECURSIVE AddGridRows(_, _, _)
AddGridRows(m, grid, r) ==
  IF r = SIZE \/ m.nodeCnt < 0 THEN m
  ELSE AddGridRows(AddCells(m, grid, r, 0), grid, r + 1)

init_dlx_solver(grid) == AddGridRows(link_columns(ZeroStore(grid)), grid, 0)

(* ---------------- src/sudoku.c: cover / uncover ---------------- *)

\* faulty variant: the column's size is not decremented
RECURSIVE cover_nodes_keep_size(_, _, _)
cover_nodes_keep_size(m, row, node) ==
  IF node = row THEN m
  ELSE LET m1 == [m EXCEPT !.up[m.down[node]] = m.up[node]]
           m2 == [m1 EXCEPT !.down[m1.up[node]] = m1.down[node]]
       IN cover_nodes_keep_size(m2, row, m2.right[node])

RECURSIVE cover_nodes(_, _, _)
cover_nodes(m, row, node) ==
  IF node = row THEN m
  ELSE LET m1 == [m EXCEPT !.up[m.down[node]] = m.up[node]]
           m2 == [m1 EXCEPT !.down[m1.up[node]] = m1.down[node]]
           m3 == [m2 EXCEPT !.size[m2.column[node]] = m2.size[m2.column[node]] - 1]
       IN cover_nodes(m3, row, m3.right[node])

RECURSIVE cover_rows(_, _, _)
cover_rows(m, col, row) ==
  IF row = col THEN m
  ELSE LET m1 == cover_nodes(m, row, m.right[row])
       IN cover_rows(m1, col, m1.down[row])

cover(m, col) ==
  LET m1 == [m EXCEPT !.left[m.right[col]] = m.left[col]]
      m2 == [m1 EXCEPT !.right[m1.left[col]] = m1.right[col]]
  IN cover_rows(m2, col, m2.down[col])

\* faulty variant: the node above is not linked back to the node
RECURSIVE uncover_nodes_no_relink(_, _, _)
uncover_nodes_no_relink(m, row, node) ==
  IF node = row THEN m
  ELSE LET m1 == [m EXCEPT !.size[m.column[node]] = m.size[m.column[node]] + 1]
           m2 == [m1 EXCEPT !.up[m1.down[node]] = node]
       IN uncover_nodes_no_relink(m2, row, m2.left[node])

\* faulty variant: the column's size is not incremented
RECURSIVE uncover_nodes_keep_size(_, _, _)
uncover_nodes_keep_size(m, row, node) ==
  IF node = row THEN m
  ELSE LET m2 == [m EXCEPT !.up[m.down[node]] = node]
           m3 == [m2 EXCEPT !.down[m2.up[node]] = node]
       IN uncover_nodes_keep_size(m3, row, m3.left[node])

RECURSIVE uncover_nodes(_, _, _)
uncover_nodes(m, row, node) ==
  IF node = row THEN m
  ELSE LET m1 == [m EXCEPT !.size[m.column[node]] = m.size[m.column[node]] + 1]
           m2 == [m1 EXCEPT !.up[m1.down[node]] = node]
           m3 == [m2 EXCEPT !.down[m2.up[node]] = node]
       IN uncover_nodes(m3, row, m3.left[node])

RECURSIVE uncover_rows(_, _, _)
uncover_rows(m, col, row) ==
  IF row = col THEN m
  ELSE LET m1 == uncover_nodes(m, row, m.left[row])
       IN uncover_rows(m1, col, m1.up[row])

uncover(m, col) ==
  LET m1 == uncover_rows(m, col, m.up[col])
      m2 == [m1 EXCEPT !.left[m1.right[col]] = col]
  IN [m2 EXCEPT !.right[m2.left[col]] = col]

\* faulty variant: a column as small as the smallest so far replaces it
RECURSIVE scan_block_last_min(_, _, _)
scan_block_last_min(m, st, n) ==
  IF n = 0 \/ st.stop \/ st.c = header THEN st
  ELSE IF m.size[st.c] <= st.min_size
       THEN IF m.size[st.c] <= 1
            THEN [c |-> st.c, col |-> st.c, min_size |-> m.size[st.c],
                  stop |-> TRUE]
            ELSE scan_block_last_min(m, [c |-> m.right[st.c], col |-> st.c,
                                         min_size |-> m.size[st.c],
                                         stop |-> FALSE],
                                     n - 1)
       ELSE scan_block_last_min(m, [st EXCEPT !.c = m.right[st.c]], n - 1)

\* search, lines 240-248: scan to the right of the root header, keeping the
\* first column that is strictly smaller than all before it and stopping
\* at the first one of size <= 1.  st is [c, col, min_size, stop].
RECURSIVE scan_block(_, _, _)
scan_block(m, st, n) ==
  IF n = 0 \/ st.stop \/ st.c = header THEN st
  ELSE IF m.size[st.c] < st.min_size
       THEN IF m.size[st.c] <= 1
            THEN [c |-> st.c, col |-> st.c, min_size |-> m.size[st.c],
                  stop |-> TRUE]
            ELSE scan_block(m, [c |-> m.right[st.c], col |-> st.c,
                                min_size |-> m.size[st.c], stop |-> FALSE],
                            n - 1)
       ELSE scan_block(m, [st EXCEPT !.c = m.right[st.c]], n - 1)

RECURSIVE scan_columns(_, _)
scan_columns(m, st) ==
  LET st1 == scan_block(m, st, Block)
  IN IF st1.stop \/ st1.c = header THEN st1.col ELSE scan_columns(m, st1)

choose_column(m) ==
  scan_columns(m, [c |-> m.right[header], col |-> NULL, min_size |-> INT_MAX,
                   stop |-> FALSE])

\* search, lines 257-259: cover the column of every other node of the chosen
\* row, walking right; st is [m, log], log the columns covered so far
RECURSIVE cover_row(_, _, _)
cover_row(st, row, node) ==
  IF node = row THEN st
  ELSE LET c  == st.m.column[node]
           m1 == cover(st.m, c)
       IN cover_row([m |-> m1, log |-> Append(st.log, << "cover", c >>)],
                    row, m1.right[node])

\* faulty variant: nothing is uncovered when a row fails
uncover_row_none(st, row, node) == st

\* faulty variant: the row's columns are uncovered walking right, in the
\* order in which they were covered
RECURSIVE uncover_forward(_, _, _)
uncover_forward(st, row, node) ==
  IF node = row THEN st
  ELSE LET c  == st.m.column[node]
           m1 == uncover(st.m, c)
       IN uncover_forward([m |-> m1, log |-> Append(st.log, << "uncover", c >>)],
                          row, m1.right[node])

uncover_row_rightward(st, row, node) ==
  uncover_forward(st, row, st.m.right[row])

\* search, lines 265-267: uncover them again, walking left
RECURSIVE uncover_row(_, _, _)
uncover_row(st, row, node) ==
  IF node = row THEN st
  ELSE LET c  == st.m.column[node]
           m1 == uncover(st.m, c)
       IN uncover_row([m |-> m1, log |-> Append(st.log, << "uncover", c >>)],
                      row, m1.left[node])

\* faulty variant: the digit is decoded without the + 1
RECURSIVE decode_block_zero_based(_, _, _, _, _)
decode_block_zero_based(g, sol, i, count, n) ==
  IF n = 0 \/ i >= count THEN g
  ELSE LET row_id == sol[i]
           r   == row_id \div 81
           c   == (row_id % 81) \div 9
           num == row_id % 9
       IN decode_block_zero_based([g EXCEPT ![r][c] = num], sol, i + 1, count,
                                  n - 1)

\* faulty variant: row and column are exchanged
RECURSIVE decode_block_transposed(_, _, _, _, _)
decode_block_transposed(g, sol, i, count, n) ==
  IF n = 0 \/ i >= count THEN g
  ELSE LET row_id == sol[i]
           r   == row_id \div 81
           c   == (row_id % 81) \div 9
           num == (row_id % 9) + 1
       IN decode_block_transposed([g EXCEPT ![c][r] = num], sol, i + 1, count,
                                  n - 1)

\* solve_dlx, lines 367-373: write the decoded rows into the grid
RECURSIVE decode_block(_, _, _, _, _)
decode_block(g, sol, i, count, n) ==
  IF n = 0 \/ i >= count THEN g
  ELSE LET row_id == sol[i]
           r   == row_id \div 81
           c   == (row_id % 81) \div 9
           num == (row_id % 9) + 1
       IN decode_block([g EXCEPT ![r][c] = num], sol, i + 1, count, n - 1)

RECURSIVE decode_rows(_, _, _, _)
decode_rows(g, sol, i, count) ==
  IF i >= count \/ g[0][0] < 0 THEN g
  ELSE decode_rows(decode_block(g, sol, i, count, Block), sol, i + Block, count)

(* ---------------- state ---------------- *)
VARIABLES
  impl,            \* which solver runs: "sudoku_c" or "part_001"
  grid,            \* the caller's grid handed to the solver (grid / in)
  out,             \* part_001: the caller's output grid
  grid0, out0,     \* history: both grids as they were when the solver was called
  dlx,             \* the node store: links, sizes, columns of all nodes
  dlx0,            \* history: the node store as the builder left it
  stack,           \* the activation records of search / dlx_search
  pc,              \* position of the running call
  ret,             \* value returned by the search call that just ended
  solution,        \* solver.solution[] / DLX_ans[]
  solution_count,  \* solver.solution_count / DLX_ansK
  result,          \* value returned by solve_dlx / sudoku_solve_algoX
  steps,           \* game->steps
  coverStack,      \* history: the columns covered and not yet uncovered
  ops,             \* history: the covers and uncovers of the last step, in order
  freed,           \* sudoku.c: the nodes already passed to free()
  rnd,             \* the state of the C library's rand() stream
  level,           \* the level / difficulty the new game was asked with
  gen,             \* the grid being filled (sudoku.c: game->solution)
  fstack,          \* the activation records of fill_grid / fillCellRowWise
  gpc,             \* position of the running new-game handler
  gret,            \* value returned by the fill call that just ended
  removed,         \* remove_numbers: the local counter removed
  game,            \* the game record: SudokuGame / the grids of App
  arg,             \* a function applied on its own: its name and arguments
  val              \* the value that application returned

\* the state of the solver
solveVars == << impl, grid, out, grid0, out0, dlx, dlx0, stack, pc, ret,
               solution, solution_count, result, steps, coverStack, ops,
               freed >>

\* the state of the new-game handler
dealVars == << rnd, level, gen, fstack, gpc, gret, removed, game >>

\* the state of the puzzle generator and of single function applications
genVars == << rnd, level, gen, fstack, gpc, gret, removed, game, arg, val >>

vars == << impl, grid, out, grid0, out0, dlx, dlx0, stack, pc, ret, solution,
           solution_count, result, steps, coverStack, ops, freed, rnd, level,
           gen, fstack, gpc, gret, removed, game, arg, val >>

\* before the solver is called there is no node store
NoStore ==
  [left |-> << >>, right |-> << >>, up |-> << >>, down |-> << >>,
   column |-> << >>, size |-> << >>, row_id |-> << >>, nodeCnt |-> 0,
   rowhead |-> << >>]

\* what the caller's output array holds before the call
StaleGrid == [r \in Idx |-> [c \in Idx |-> 5]]

Top == stack[Len(stack)]
Pop(stk) == SubSeq(stk, 1, Len(stk) - 1)
SetTop(stk, f) == [stk EXCEPT ![Len(stk)] = f]

\* the history of covered columns after a list of covers and uncovers
RECURSIVE ApplyOps(_, _)
ApplyOps(stk, log) ==
  IF log = << >> THEN stk
  ELSE IF Head(log)[1] = "cover"
       THEN ApplyOps(Append(stk, Head(log)[2]), Tail(log))
       ELSE ApplyOps(IF stk = << >> THEN stk ELSE Pop(stk), Tail(log))

\* no new game is being dealt
NoDeal ==
  /\ rnd = 0
  /\ level = 0
  /\ gen = ZeroGrid
  /\ fstack = << >>
  /\ gpc = "off"
  /\ gret = FALSE
  /\ removed = 0
  /\ game = [impl |-> "none"]

\* ... and no function is applied on its own; val is empty until the
\* function has returned, then it holds the returned value
NoGame ==
  /\ NoDeal
  /\ arg = [fn |-> "none"]
  /\ val = << >>

\* faulty variant: the depth is counted from 1
Frame_from_one(k, covers) ==
  [k |-> k + 1, col |-> NULL, row |-> NULL, entryCovers |-> covers]

\* an activation record of search(solver, k) / dlx_search(): the depth k,
\* the column chosen, the row being tried and the columns covered when the
\* call was entered
Frame(k, covers) ==
  [k |-> k, col |-> NULL, row |-> NULL, entryCovers |-> covers]

InitWith(grids) ==
  /\ impl \in { "sudoku_c", "part_001" }
  /\ grid \in grids
  /\ out = StaleGrid
  /\ grid0 = grid
  /\ out0 = out
  /\ dlx = NoStore
  /\ dlx0 = dlx
  /\ stack = << >>
  /\ pc = "start"
  /\ ret = FALSE
  /\ solution = << >>
  /\ solution_count = 0
  /\ result = FALSE
  /\ steps = 0
  /\ coverStack = << >>
  /\ ops = << >>
  /\ freed = { }
  /\ NoGame

Init == InitWith(InputGrids)

InitLinks == InitWith(LinkGrids)

(* ---------------- src/sudoku.c: solve_dlx and search ---------------- *)

\* solve_dlx, lines 360-364: build the matrix and call search(&solver, 0)
solve_dlx_begin ==
  /\ pc = "start" /\ impl = "sudoku_c"
  /\ dlx' = init_dlx_solver(grid)
  /\ dlx0' = dlx'
  /\ solution' = [i \in 0 .. (SOLUTION_LEN - 1) |-> NULL]
  /\ solution_count' = 0
  /\ stack' = << Frame(0, << >>) >>
  /\ pc' = "enter"
  /\ ops' = << >>
  /\ UNCHANGED << impl, grid, out, grid0, out0, ret, result, steps,
                  coverStack, freed >>
  /\ UNCHANGED genVars

\* search, lines 233-252: count the step, test for success, choose a column,
\* give up if it is empty, else cover it and start the row loop
search_enter ==
  /\ pc = "enter" /\ impl = "sudoku_c"
  /\ steps' = steps + 1
  /\ IF dlx.right[header] = header
     THEN /\ solution_count' = Top.k
          /\ ret' = TRUE
          /\ pc' = "return"
          /\ ops' = << >>
          /\ UNCHANGED << dlx, stack, coverStack >>
     ELSE LET col == choose_column(dlx) IN
          IF col = NULL \/ dlx.size[col] = 0
          THEN /\ ret' = FALSE
               /\ pc' = "return"
               /\ stack' = SetTop(stack, [Top EXCEPT !.col = col])
               /\ ops' = << >>
               /\ UNCHANGED << dlx, solution_count, coverStack >>
          ELSE /\ dlx' = cover(dlx, col)
               /\ stack' = SetTop(stack, [Top EXCEPT !.col = col,
                                                    !.row = dlx'.down[col]])
               /\ pc' = "row"
               /\ ops' = << << "cover", col >> >>
               /\ coverStack' = ApplyOps(coverStack, ops')
               /\ UNCHANGED << ret, solution_count >>
  /\ UNCHANGED << impl, grid, out, grid0, out0, dlx0, solution, result, freed >>
  /\ UNCHANGED genVars

\* search, lines 254-261: record the row, cover its other columns, recurse.
\* solution[] has 81 entries: a write at k > 80 is out of bounds.
search_row ==
  /\ pc = "row" /\ impl = "sudoku_c"
  /\ Top.row # Top.col
  /\ IF Top.k >= SOLUTION_LEN
     THEN /\ pc' = "fault"
          /\ UNCHANGED << dlx, stack, solution, coverStack, ops >>
     ELSE LET st == cover_row([m |-> dlx, log |-> << >>], Top.row,
                              dlx.right[Top.row]) IN
          /\ solution' = [solution EXCEPT ![Top.k] = dlx.row_id[Top.row]]
          /\ dlx' = st.m
          /\ ops' = st.log
          /\ coverStack' = ApplyOps(coverStack, st.log)
          /\ stack' = Append(stack, Frame(Top.k + 1, coverStack'))
          /\ pc' = "enter"
  /\ UNCHANGED << impl, grid, out, grid0, out0, dlx0, ret, solution_count,
                  result, steps, freed >>
  /\ UNCHANGED genVars

\* search, lines 254 and 270-271: the row loop is over; uncover the column
\* and return false
search_exhausted ==
  /\ pc = "row" /\ impl = "sudoku_c"
  /\ Top.row = Top.col
  /\ dlx' = uncover(dlx, Top.col)
  /\ ops' = << << "uncover", Top.col >> >>
  /\ coverStack' = ApplyOps(coverStack, ops')
  /\ ret' = FALSE
  /\ pc' = "return"
  /\ UNCHANGED << impl, grid, out, grid0, out0, dlx0, stack, solution,
                  solution_count, result, steps, freed >>
  /\ UNCHANGED genVars

\* search, lines 261-263: the recursive call returned true; return true
search_return_true ==
  /\ pc = "return" /\ impl = "sudoku_c"
  /\ Len(stack) > 1 /\ ret
  /\ stack' = Pop(stack)
  /\ ops' = << >>
  /\ UNCHANGED << impl, grid, out, grid0, out0, dlx, dlx0, pc, ret, solution,
                  solution_count, result, steps, coverStack, freed >>
  /\ UNCHANGED genVars

\* search, lines 261-268: the recursive call returned false; uncover the
\* row's other columns walking left and step to the next row
search_return_false ==
  /\ pc = "return" /\ impl = "sudoku_c"
  /\ Len(stack) > 1 /\ ~ret
  /\ LET caller == stack[Len(stack) - 1]
         st == uncover_row([m |-> dlx, log |-> << >>], caller.row,
                           dlx.left[caller.row])
     IN /\ dlx' = st.m
        /\ ops' = st.log
        /\ coverStack' = ApplyOps(coverStack, st.log)
        /\ stack' = SetTop(Pop(stack),
                           [caller EXCEPT !.row = st.m.down[caller.row]])
  /\ pc' = "row"
  /\ UNCHANGED << impl, grid, out, grid0, out0, dlx0, ret, solution,
                  solution_count, result, steps, freed >>
  /\ UNCHANGED genVars

\* solve_dlx, lines 364-374: search(&solver, 0) returned; on success the
\* decoded rows are written into the caller's grid
solve_dlx_extract ==
  /\ pc = "return" /\ impl = "sudoku_c"
  /\ Len(stack) = 1
  /\ result' = ret
  /\ grid' = IF ret THEN decode_rows(grid, solution, 0, solution_count) ELSE grid
  /\ stack' = << >>
  /\ pc' = "free"
  /\ ops' = << >>
  /\ UNCHANGED << impl, out, grid0, out0, dlx, dlx0, ret, solution,
                  solution_count, steps, coverStack, freed >>
  /\ UNCHANGED genVars

(* ---------------- src/sudoku.c: free_dlx_solver ---------------- *)

\* free_dlx_solver, lines 346-350: free the other nodes of a row, walking
\* right.  st is [freed, ub]; ub is set when a node that was already freed
\* is read or freed again, and the walk stops there.
RECURSIVE free_nodes(_, _, _, _)
free_nodes(m, st, row, node) ==
  IF node = row THEN st
  ELSE IF node \in st.freed THEN [st EXCEPT !.ub = TRUE]
  ELSE free_nodes(m, [st EXCEPT !.freed = @ \cup { node }], row, m.right[node])

\* free_dlx_solver, lines 343-353: free every row met walking down a column
RECURSIVE free_rows(_, _, _, _)
free_rows(m, st, col, row) ==
  IF row = col THEN st
  ELSE IF row \in st.freed THEN [st EXCEPT !.ub = TRUE]
  ELSE LET next_row == m.down[row]
           st1 == free_nodes(m, st, row, m.right[row])
       IN IF st1.ub THEN st1
          ELSE free_rows(m, [st1 EXCEPT !.freed = @ \cup { row }], col, next_row)

\* free_dlx_solver, lines 338-355: the columns in index order
RECURSIVE free_block(_, _, _, _)
free_block(m, st, i, n) ==
  IF n = 0 \/ st.ub \/ i = DLX_COLS THEN st
  ELSE LET st1 == free_rows(m, st, i, m.down[i])
       IN IF st1.ub THEN st1
          ELSE free_block(m, [st1 EXCEPT !.freed = @ \cup { i }], i + 1, n - 1)

\* free_dlx_solver, lines 338-356: all the columns, then the root header
RECURSIVE free_columns(_, _, _)
free_columns(m, st, i) ==
  IF st.ub THEN st
  ELSE IF i >= DLX_COLS THEN [st EXCEPT !.freed = @ \cup { header }]
  ELSE free_columns(m, free_block(m, st, i, Block), i + Block)

\* solve_dlx, lines 376-377: release the matrix and return.  Reading or
\* freeing a freed node is undefined: the call may fault or may go on.
free_dlx_solver ==
  /\ pc = "free" /\ impl = "sudoku_c"
  /\ LET st == free_columns(dlx, [freed |-> { }, ub |-> FALSE], 0)
     IN /\ freed' = st.freed
        /\ pc' \in (IF st.ub THEN { "fault", "done" } ELSE { "done" })
  /\ ops' = << >>
  /\ UNCHANGED << impl, grid, out, grid0, out0, dlx, dlx0, stack, ret, solution,
                  solution_count, result, steps, coverStack >>
  /\ UNCHANGED genVars

(* ---------------- src/unnamed/part_001: static DLX arrays ---------------- *)

col_cell(r, c) == r * 9 + c
col_rownum(r, v) == 81 + r * 9 + (v - 1)
col_colnum(c, v) == 162 + c * 9 + (v - 1)
col_boxnum(br, bc, v) == 243 + (br * 3 + bc) * 9 + (v - 1)
box_r(r) == r \div 3
box_c(c) == c \div 3

\* dlx_init: DLX_H is node 324; the column headers are linked in index order
dlx_init(m) ==
  [m EXCEPT
     !.left = [n \in DOMAIN m.left |->
                 IF n = header THEN DLX_COLS - 1
                 ELSE IF n < DLX_COLS THEN (IF n = 0 THEN header ELSE n - 1)
                 ELSE m.left[n]],
     !.right = [n \in DOMAIN m.right |->
                 IF n = header THEN 0
                 ELSE IF n < DLX_COLS
                      THEN (IF n = DLX_COLS - 1 THEN header ELSE n + 1)
                 ELSE m.right[n]],
     !.up = [n \in DOMAIN m.up |-> IF n < DLX_COLS THEN n ELSE m.up[n]],
     !.down = [n \in DOMAIN m.down |-> IF n < DLX_COLS THEN n ELSE m.down[n]],
     !.size = [n \in DOMAIN m.size |-> IF n < DLX_COLS THEN 0 ELSE m.size[n]],
     !.nodeCnt = DLX_COLS + 1,
     !.rowhead = [r \in 0 .. (DLX_ROWS - 1) |-> NULL]]

dlx_addNode(m, rowID, colID) ==
  LET node == m.nodeCnt
      m1 == [m EXCEPT !.nodeCnt = node + 1]
      m2 == [m1 EXCEPT !.column[node] = colID]
      m3 == [m2 EXCEPT !.down[node] = colID]
      m4 == [m3 EXCEPT !.up[node] = m3.up[colID]]
      m5 == [m4 EXCEPT !.down[m4.up[colID]] = node]
      m6 == [m5 EXCEPT !.up[colID] = node]
      m7 == [m6 EXCEPT !.size[colID] = m6.size[colID] + 1]
  IN IF m7.rowhead[rowID] = NULL
     THEN [m7 EXCEPT !.rowhead[rowID] = node, !.left[node] = node,
                     !.right[node] = node]
     ELSE LET head  == m7.rowhead[rowID]
              right == m7.right[head]
              a == [m7 EXCEPT !.right[head] = node]
              b == [a EXCEPT !.left[node] = head]
              c == [b EXCEPT !.right[node] = right]
          IN [c EXCEPT !.left[right] = node]

\* dlx_build_from_board, line 110: the four nodes of one row
RECURSIVE add_row_nodes(_, _, _, _)
add_row_nodes(m, rowID, cols, k) ==
  IF k > 4 \/ m.nodeCnt < 0 THEN m
  ELSE add_row_nodes(dlx_addNode(m, rowID, cols[k]), rowID, cols, k + 1)

\* dlx_build_from_board, lines 107-112: the rows of one cell; st is [m, rowID]
RECURSIVE add_cell_rows(_, _, _, _, _)
add_cell_rows(st, r, c, v, ev) ==
  IF v > ev \/ st.m.nodeCnt < 0 THEN st
  ELSE LET cols == << col_cell(r, c), col_rownum(r, v), col_colnum(c, v),
                      col_boxnum(box_r(r), box_c(c), v) >>
           m1 == [st.m EXCEPT !.rowhead[st.rowID] = NULL]
           m2 == add_row_nodes(m1, st.rowID, cols, 1)
       IN add_cell_rows([m |-> m2, rowID |-> st.rowID + 1], r, c, v + 1, ev)

\* dlx_build_from_board, line 104: the cells of one row of the board
RECURSIVE add_cells(_, _, _, _)
add_cells(st, board, r, c) ==
  IF c = 9 \/ st.m.nodeCnt < 0 THEN st
  ELSE LET sv == IF board[r][c] # 0 THEN board[r][c] ELSE 1
           ev == IF board[r][c] # 0 THEN board[r][c] ELSE 9
       IN add_cells(add_cell_rows(st, r, c, sv, ev), board, r, c + 1)

\* dlx_build_from_board, line 103
RECURSIVE add_board_rows(_, _, _)
add_board_rows(st, board, r) ==
  IF r = 9 \/ st.m.nodeCnt < 0 THEN st
  ELSE add_board_rows(add_cells(st, board, r, 0), board, r + 1)

dlx_build_from_board(board) ==
  add_board_rows([m |-> dlx_init(ZeroStore(board)), rowID |-> 0], board, 0).m

RECURSIVE dlx_cover_nodes(_, _, _)
dlx_cover_nodes(m, i, j) ==
  IF j = i THEN m
  ELSE LET m1 == [m EXCEPT !.up[m.down[j]] = m.up[j]]
           m2 == [m1 EXCEPT !.down[m1.up[j]] = m1.down[j]]
           m3 == [m2 EXCEPT !.size[m2.column[j]] = m2.size[m2.column[j]] - 1]
       IN dlx_cover_nodes(m3, i, m3.right[j])

RECURSIVE dlx_cover_rows(_, _, _)
dlx_cover_rows(m, c, i) ==
  IF i = c THEN m
  ELSE LET m1 == dlx_cover_nodes(m, i, m.right[i])
       IN dlx_cover_rows(m1, c, m1.down[i])

dlx_cover(m, c) ==
  LET m1 == [m EXCEPT !.left[m.right[c]] = m.left[c]]
      m2 == [m1 EXCEPT !.right[m1.left[c]] = m1.right[c]]
  IN dlx_cover_rows(m2, c, m2.down[c])

RECURSIVE dlx_uncover_nodes(_, _, _)
dlx_uncover_nodes(m, i, j) ==
  IF j = i THEN m
  ELSE LET m1 == [m EXCEPT !.size[m.column[j]] = m.size[m.column[j]] + 1]
           m2 == [m1 EXCEPT !.up[m1.down[j]] = j]
           m3 == [m2 EXCEPT !.down[m2.up[j]] = j]
       IN dlx_uncover_nodes(m3, i, m3.left[j])

RECURSIVE dlx_uncover_rows(_, _, _)
dlx_uncover_rows(m, c, i) ==
  IF i = c THEN m
  ELSE LET m1 == dlx_uncover_nodes(m, i, m.left[i])
       IN dlx_uncover_rows(m1, c, m1.up[i])

dlx_uncover(m, c) ==
  LET m1 == dlx_uncover_rows(m, c, m.up[c])
      m2 == [m1 EXCEPT !.left[m1.right[c]] = c]
  IN [m2 EXCEPT !.right[m2.left[c]] = c]

\* dlx_chooseCol: the whole list is scanned; a column replaces the best one
\* only if it is strictly smaller.  st is [c, best, bS].
RECURSIVE dlx_scan_block(_, _, _)
dlx_scan_block(m, st, n) ==
  IF n = 0 \/ st.c = header THEN st
  ELSE IF m.size[st.c] < st.bS
       THEN dlx_scan_block(m, [c |-> m.right[st.c], best |-> st.c,
                               bS |-> m.size[st.c]], n - 1)
       ELSE dlx_scan_block(m, [st EXCEPT !.c = m.right[st.c]], n - 1)

RECURSIVE dlx_scan(_, _)
dlx_scan(m, st) ==
  LET st1 == dlx_scan_block(m, st, Block)
  IN IF st1.c = header THEN st1.best ELSE dlx_scan(m, st1)

dlx_chooseCol(m) ==
  dlx_scan(m, [c |-> m.right[header], best |-> NULL, bS |-> BIG])

\* dlx_search, line 91
RECURSIVE dlx_cover_row(_, _, _)
dlx_cover_row(st, i, j) ==
  IF j = i THEN st
  ELSE LET c  == st.m.column[j]
           m1 == dlx_cover(st.m, c)
       IN dlx_cover_row([m |-> m1, log |-> Append(st.log, << "cover", c >>)],
                        i, m1.right[j])

\* dlx_search, line 93
RECURSIVE dlx_uncover_row(_, _, _)
dlx_uncover_row(st, i, j) ==
  IF j = i THEN st
  ELSE LET c  == st.m.column[j]
           m1 == dlx_uncover(st.m, c)
       IN dlx_uncover_row([m |-> m1, log |-> Append(st.log, << "uncover", c >>)],
                          i, m1.left[j])

\* faulty variant: only the recorded node's own column is read
row_cols_none(m, i, j) == << >>

\* dlx_extract_solution, lines 120-122: the columns of a recorded node's row
RECURSIVE row_cols(_, _, _)
row_cols(m, i, j) ==
  IF j = i THEN << >> ELSE << m.column[j] >> \o row_cols(m, i, m.right[j])

\* faulty variant: the value is the zero-based offset in the row-value block
RECURSIVE decode_cols_zero_based(_, _, _)
decode_cols_zero_based(st, cols, x) ==
  IF x > 4 \/ x > Len(cols) THEN st
  ELSE LET cc == cols[x]
           st1 == IF cc < 81 THEN [st EXCEPT !.r = cc \div 9, !.c = cc % 9]
                  ELSE IF cc >= 81 /\ cc < 162
                       THEN [st EXCEPT !.v = (cc - 81) % 9]
                       ELSE st
       IN decode_cols_zero_based(st1, cols, x + 1)

\* dlx_extract_solution, lines 123-128: r, c from the cell column, v from the
\* row-value column; st is [r, c, v]
RECURSIVE decode_cols(_, _, _)
decode_cols(st, cols, x) ==
  IF x > 4 \/ x > Len(cols) THEN st
  ELSE LET cc == cols[x]
           st1 == IF cc < 81 THEN [st EXCEPT !.r = cc \div 9, !.c = cc % 9]
                  ELSE IF cc >= 81 /\ cc < 162
                       THEN [st EXCEPT !.v = ((cc - 81) % 9) + 1]
                       ELSE st
       IN decode_cols(st1, cols, x + 1)

\* dlx_extract_solution, lines 119-130
RECURSIVE extract_block(_, _, _, _, _, _)
extract_block(o, m, ans, k, ansK, n) ==
  IF n = 0 \/ k >= ansK THEN o
  ELSE LET i == ans[k]
           cols == << m.column[i] >> \o row_cols(m, i, m.right[i])
           d == decode_cols([r |-> NULL, c |-> NULL, v |-> NULL], cols, 1)
           o1 == IF d.r >= 0 /\ d.c >= 0 /\ d.v >= 1
                 THEN [o EXCEPT ![d.r][d.c] = d.v] ELSE o
       IN extract_block(o1, m, ans, k + 1, ansK, n - 1)

RECURSIVE extract_rows(_, _, _, _, _)
extract_rows(o, m, ans, k, ansK) ==
  IF k >= ansK \/ o[0][0] < 0 THEN o
  ELSE extract_rows(extract_block(o, m, ans, k, ansK, Block), m, ans,
                    k + Block, ansK)

dlx_extract_solution(m, ans, ansK) == extract_rows(ZeroGrid, m, ans, 0, ansK)

\* sudoku_solve_algoX, lines 134-135: build the matrix and call dlx_search()
sudoku_solve_algoX_begin ==
  /\ pc = "start" /\ impl = "part_001"
  /\ dlx' = dlx_build_from_board(grid)
  /\ dlx0' = dlx'
  /\ solution' = [i \in 0 .. (DLX_ROWS - 1) |-> 0]
  /\ solution_count' = 0
  /\ stack' = << Frame(0, << >>) >>
  /\ pc' = "enter"
  /\ ops' = << >>
  /\ UNCHANGED << impl, grid, out, grid0, out0, ret, result, steps,
                  coverStack, freed >>
  /\ UNCHANGED genVars

\* dlx_search, lines 85-89
dlx_search_enter ==
  /\ pc = "enter" /\ impl = "part_001"
  /\ IF dlx.right[header] = header
     THEN /\ ret' = TRUE
          /\ pc' = "return"
          /\ ops' = << >>
          /\ UNCHANGED << dlx, stack, coverStack >>
     ELSE LET c == dlx_chooseCol(dlx) IN
          IF c = NULL
          THEN /\ ret' = FALSE
               /\ pc' = "return"
               /\ ops' = << >>
               /\ UNCHANGED << dlx, stack, coverStack >>
          ELSE /\ dlx' = dlx_cover(dlx, c)
               /\ stack' = SetTop(stack, [Top EXCEPT !.col = c,
                                                    !.row = dlx'.down[c]])
               /\ pc' = "row"
               /\ ops' = << << "cover", c >> >>
               /\ coverStack' = ApplyOps(coverStack, ops')
               /\ UNCHANGED ret
  /\ UNCHANGED << impl, grid, out, grid0, out0, dlx0, solution, solution_count,
                  result, steps, freed >>
  /\ UNCHANGED genVars

\* dlx_search, lines 89-92: record node i, cover the row's other columns,
\* recurse.  DLX_ans has DLX_ROWS entries.
dlx_search_row ==
  /\ pc = "row" /\ impl = "part_001"
  /\ Top.row # Top.col
  /\ IF solution_count >= DLX_ROWS
     THEN /\ pc' = "fault"
          /\ UNCHANGED << dlx, stack, solution, solution_count, coverStack, ops >>
     ELSE LET st == dlx_cover_row([m |-> dlx, log |-> << >>], Top.row,
                                  dlx.right[Top.row]) IN
          /\ solution' = [solution EXCEPT ![solution_count] = Top.row]
          /\ solution_count' = solution_count + 1
          /\ dlx' = st.m
          /\ ops' = st.log
          /\ coverStack' = ApplyOps(coverStack, st.log)
          /\ stack' = Append(stack, Frame(Top.k + 1, coverStack'))
          /\ pc' = "enter"
  /\ UNCHANGED << impl, grid, out, grid0, out0, dlx0, ret, result, steps, freed >>
  /\ UNCHANGED genVars

\* dlx_search, lines 89 and 96-97
dlx_search_exhausted ==
  /\ pc = "row" /\ impl = "part_001"
  /\ Top.row = Top.col
  /\ dlx' = dlx_uncover(dlx, Top.col)
  /\ ops' = << << "uncover", Top.col >> >>
  /\ coverStack' = ApplyOps(coverStack, ops')
  /\ ret' = FALSE
  /\ pc' = "return"
  /\ UNCHANGED << impl, grid, out, grid0, out0, dlx0, stack, solution,
                  solution_count, result, steps, freed >>
  /\ UNCHANGED genVars

\* dlx_search, line 92: the recursive call returned 1
dlx_search_return_true ==
  /\ pc = "return" /\ impl = "part_001"
  /\ Len(stack) > 1 /\ ret
  /\ stack' = Pop(stack)
  /\ ops' = << >>
  /\ UNCHANGED << impl, grid, out, grid0, out0, dlx, dlx0, pc, ret, solution,
                  solution_count, result, steps, coverStack, freed >>
  /\ UNCHANGED genVars

\* dlx_search, lines 92-94 and the loop step of line 89: the recursive call
\* returned 0
dlx_search_return_false ==
  /\ pc = "return" /\ impl = "part_001"
  /\ Len(stack) > 1 /\ ~ret
  /\ LET caller == stack[Len(stack) - 1]
         st == dlx_uncover_row([m |-> dlx, log |-> << >>], caller.row,
                               dlx.left[caller.row])
     IN /\ dlx' = st.m
        /\ ops' = st.log
        /\ coverStack' = ApplyOps(coverStack, st.log)
        /\ stack' = SetTop(Pop(stack),
                           [caller EXCEPT !.row = st.m.down[caller.row]])
  /\ solution_count' = solution_count - 1
  /\ pc' = "row"
  /\ UNCHANGED << impl, grid, out, grid0, out0, dlx0, ret, solution, result,
                  steps, freed >>
  /\ UNCHANGED genVars

\* sudoku_solve_algoX, lines 135-137: dlx_search() returned
sudoku_solve_algoX_end ==
  /\ pc = "return" /\ impl = "part_001"
  /\ Len(stack) = 1
  /\ result' = ret
  /\ out' = IF ret THEN dlx_extract_solution(dlx, solution, solution_count) ELSE out
  /\ stack' = << >>
  /\ pc' = "done"
  /\ ops' = << >>
  /\ UNCHANGED << impl, grid, grid0, out0, dlx, dlx0, ret, solution,
                  solution_count, steps, coverStack, freed >>
  /\ UNCHANGED genVars

Next ==
  \/ solve_dlx_begin
  \/ search_enter
  \/ search_row
  \/ search_exhausted
  \/ search_return_true
  \/ search_return_false
  \/ solve_dlx_extract
  \/ free_dlx_solver
  \/ sudoku_solve_algoX_begin
  \/ dlx_search_enter
  \/ dlx_search_row
  \/ dlx_search_exhausted
  \/ dlx_search_return_true
  \/ dlx_search_return_false
  \/ sudoku_solve_algoX_end

Spec == Init /\ [][Next]_vars

\* the same program run on the inputs of the link-structure checks
SpecLinks == InitLinks /\ [][Next]_vars

(* ---------------- what the claims speak about ---------------- *)

Cells == Idx \X Idx
BoxOf(r, c) == (r \div SUBGRID) * SUBGRID + (c \div SUBGRID)
SameUnit(a, b) ==
  a[1] = b[1] \/ a[2] = b[2] \/ BoxOf(a[1], a[2]) = BoxOf(b[1], b[2])

\* every row, column and box of g holds each digit 1..9 exactly once
RuleValid(g) ==
  /\ \A rc \in Cells : g[rc[1]][rc[2]] \in Digits
  /\ \A u \in Idx : \A d \in Digits :
       /\ Cardinality({ c \in Idx : g[u][c] = d }) = 1
       /\ Cardinality({ r \in Idx : g[r][u] = d }) = 1
       /\ Cardinality({ rc \in Cells : BoxOf(rc[1], rc[2]) = u
                                       /\ g[rc[1]][rc[2]] = d }) = 1

\* g keeps every non-zero cell of the input inp
KeepsClues(g, inp) ==
  \A rc \in Cells : inp[rc[1]][rc[2]] # 0 => g[rc[1]][rc[2]] = inp[rc[1]][rc[2]]

\* two different cells of one row, column or box hold the same digit
HasDuplicate(g) ==
  \E a \in Cells : \E b \in Cells :
    a # b /\ SameUnit(a, b) /\ g[a[1]][a[2]] # 0 /\ g[a[1]][a[2]] = g[b[1]][b[2]]

EmptyCells(g) == { rc \in Cells : g[rc[1]][rc[2]] = 0 }

\* the grid the solver hands back: sudoku.c writes into the caller's grid,
\* part_001 into the output grid
Delivered == IF impl = "sudoku_c" THEN grid ELSE out

\* a reference decision of solvability that owes nothing to the DLX code:
\* fill the empty cells in row-major order, trying every digit no peer holds
PeerHolds(g, rc, v) ==
  \E p \in Cells : p # rc /\ SameUnit(p, rc) /\ g[p[1]][p[2]] = v

RECURSIVE CanFill(_)
CanFill(g) ==
  LET empty == { r * SIZE + c : <<r, c>> \in EmptyCells(g) }
  IN IF empty = { } THEN TRUE
     ELSE LET p  == CHOOSE x \in empty : \A y \in empty : x <= y
              rc == << p \div SIZE, p % SIZE >>
          IN \E v \in Digits :
               /\ ~PeerHolds(g, rc, v)
               /\ CanFill([g EXCEPT ![rc[1]][rc[2]] = v])

\* g has a rule-valid completion: the base grid is one, or the reference
\* search finds one (used for the grids with at most three empty rows)
HasCompletion(g) ==
  \/ RuleValid(GridOf(BaseGrid)) /\ KeepsClues(GridOf(BaseGrid), g)
  \/ /\ Cardinality(EmptyCells(g)) <= 3 * SIZE
     /\ ~HasDuplicate(g)
     /\ CanFill(g)

\* the columns still in the root header's list, walking right
RECURSIVE active_block(_, _, _)
active_block(m, st, n) ==
  IF n = 0 \/ st.c = header THEN st
  ELSE active_block(m, [c |-> m.right[st.c], seq |-> Append(st.seq, st.c)], n - 1)

RECURSIVE active_from(_, _)
active_from(m, st) ==
  LET st1 == active_block(m, st, Block)
  IN IF st1.c = header THEN st1.seq ELSE active_from(m, st1)

\* the active columns in list order
ActiveColumns(m) == active_from(m, [c |-> m.right[header], seq |-> << >>])

Searching == pc \in { "enter", "row", "return" }

(* ---------------- claims ---------------- *)

\* C1: whenever the solver reports success, the grid it delivers has no
\* empty cell, holds each digit exactly once in every row, column and box,
\* and keeps every non-zero cell of the input.
C1_SuccessIsValidCompletion ==
  (pc = "done" /\ result) =>
     (RuleValid(Delivered) /\ KeepsClues(Delivered, grid0))

\* C1 witness: a solve of a grid with empty cells has reported success.
C1_Witness ==
  pc = "done" /\ result /\ EmptyCells(grid0) # { } /\ RuleValid(Delivered)

\* C2: the search is complete: when the input grid has a rule-valid
\* completion, the solver does not end reporting failure.
C2_SolvableGivesSuccess ==
  (pc \in { "free", "done" } /\ HasCompletion(grid0)) => result

\* C2 witness: success was reported for a solvable grid on which the search
\* first had to give up at least one branch (a row was recorded at a depth
\* and later replaced).
C2_Witness ==
  /\ pc = "done" /\ result /\ HasCompletion(grid0)
  /\ steps > SOLUTION_LEN + 1

\* the links and sizes of a node store
Links(m) == << m.left, m.right, m.up, m.down, m.size >>

CoverOf(m, c) == IF impl = "sudoku_c" THEN cover(m, c) ELSE dlx_cover(m, c)
UncoverOf(m, c) == IF impl = "sudoku_c" THEN uncover(m, c) ELSE dlx_uncover(m, c)

\* C3: cover and uncover are exact inverses: in every matrix state of the
\* search, covering any active column and at once uncovering it leaves
\* every left, right, up and down link and every column size as it was.
C3_CoverUncoverInverse ==
  Searching =>
    LET act == ActiveColumns(dlx)
    IN \A x \in 1 .. Len(act) :
         Links(UncoverOf(CoverOf(dlx, act[x]), act[x])) = Links(dlx)

\* C3 witness: a matrix state in the middle of the search, reached after a
\* branch was given up, with a column of several rows still active.
C3_Witness ==
  /\ pc = "row" /\ Len(stack) > 1
  /\ ops # << >> /\ ops[1][1] = "uncover"
  /\ \E c \in 0 .. (DLX_COLS - 1) :
       dlx.size[c] > 1 /\ dlx.right[dlx.left[c]] = c /\ dlx.down[c] # c

\* the matrix the builder left, with the columns of a history covered in order
RECURSIVE replay_block(_, _, _, _)
replay_block(m, covers, i, n) ==
  IF n = 0 \/ i > Len(covers) THEN m
  ELSE replay_block(CoverOf(m, covers[i]), covers, i + 1, n - 1)

RECURSIVE Replay(_, _, _)
Replay(m, covers, i) ==
  IF i > Len(covers) \/ m.nodeCnt < 0 THEN m
  ELSE Replay(replay_block(m, covers, i, Block), covers, i + Block)

MatrixAfter(covers) == Replay(dlx0, covers, 1)

\* C4: a search call that returns failure, at any depth, leaves every link
\* and every column size as they were when that call was entered (the
\* matrix of the covers that were in force at its entry); a successful
\* top-level call leaves the matrix covered.
C4_FailureRestoresMatrix ==
  /\ pc = "enter" =>
       /\ Top.entryCovers = coverStack
       /\ Links(dlx) = Links(MatrixAfter(coverStack))
  /\ (pc = "return" /\ ~ret) =>
       Links(dlx) = Links(MatrixAfter(Top.entryCovers))
  /\ (pc = "return" /\ ret /\ Len(stack) = 1) =>
       /\ Links(dlx) = Links(MatrixAfter(coverStack))
       /\ Links(dlx) # Links(dlx0)
       /\ dlx.right[header] = header

\* C4 witness: a call below the top level returns failure after it covered
\* a column that had rows, tried them and uncovered the column again.
C4_Witness ==
  /\ pc = "return" /\ ~ret /\ Len(stack) > 1
  /\ Top.col # NULL /\ Top.row = Top.col
  /\ dlx.size[Top.col] > 0
  /\ Links(dlx) # Links(dlx0)

\* a list of covers and uncovers keeps the stack discipline from history stk
RECURSIVE LifoOk(_, _)
LifoOk(stk, log) ==
  IF log = << >> THEN TRUE
  ELSE IF Head(log)[1] = "cover"
       THEN LifoOk(Append(stk, Head(log)[2]), Tail(log))
       ELSE /\ stk # << >>
            /\ stk[Len(stk)] = Head(log)[2]
            /\ LifoOk(Pop(stk), Tail(log))

Reverse(s) == [i \in 1 .. Len(s) |-> s[Len(s) + 1 - i]]

\* the columns covered for the row the caller of the top call is trying
RowCovers ==
  SubSeq(Top.entryCovers, Len(stack[Len(stack) - 1].entryCovers) + 2,
         Len(Top.entryCovers))

\* C5: every uncover is of the column covered last and not yet uncovered;
\* when the call made for a row returns failure, the next step uncovers the
\* columns covered for that row, in the reverse of the order of their
\* covers, and only then is the next row looked at.
C5_StackDiscipline ==
  [][ /\ LifoOk(coverStack, ops')
      /\ (pc = "return" /\ ~ret /\ Len(stack) > 1) =>
           /\ \A i \in 1 .. Len(ops') : ops'[i][1] = "uncover"
           /\ [i \in 1 .. Len(ops') |-> ops'[i][2]] = Reverse(RowCovers)
           /\ pc' = "row" ]_vars

\* C5 witness: a row has failed, its three columns are uncovered again and
\* another row of the same column is about to be tried.
C5_Witness ==
  /\ pc = "row" /\ Len(ops) = 3 /\ ops[1][1] = "uncover"
  /\ ops[1][2] # ops[3][2]
  /\ Top.row # Top.col

\* the first active column, walking right from the header, whose size no
\* active column undercuts
LeftmostMinimum(m) ==
  LET act == ActiveColumns(m)
      x == CHOOSE i \in 1 .. Len(act) :
             \A j \in 1 .. Len(act) :
               \/ m.size[act[i]] < m.size[act[j]]
               \/ m.size[act[i]] = m.size[act[j]] /\ i <= j
  IN act[x]

\* the first active column of size 0 or 1 if there is one, else the
\* leftmost column of minimum size
FirstSmallOrMinimum(m) ==
  LET act == ActiveColumns(m)
      small == { i \in 1 .. Len(act) : m.size[act[i]] <= 1 }
  IN IF small = { } THEN LeftmostMinimum(m)
     ELSE act[CHOOSE i \in small : \A j \in small : i <= j]

\* a search call is about to choose among at least one active column
Choosing == pc = "enter" /\ dlx.right[header] # header

RowColumns(m, n) ==
  { m.column[n], m.column[m.right[n]], m.column[m.right[m.right[n]]],
    m.column[m.right[m.right[m.right[n]]]] }

AfterBuild == pc = "enter" /\ Len(stack) = 1

\* the candidates a grid calls for: the value of a given cell, every digit
\* for an empty cell
Candidates(g) ==
  { t \in Idx \X Idx \X Digits : g[t[1]][t[2]] \in { 0, t[3] } }

CandidateColumns(t) ==
  { t[1] * 9 + t[2],
    81 + t[1] * 9 + (t[3] - 1),
    162 + t[2] * 9 + (t[3] - 1),
    243 + ((t[1] \div 3) * 3 + t[2] \div 3) * 9 + (t[3] - 1) }

RowNodes(m) == (DLX_COLS + 1) .. (m.nodeCnt - 1)

\* the nodes met walking right from n, n included, in four steps
RowOf(m, n) ==
  { n, m.right[n], m.right[m.right[n]], m.right[m.right[m.right[n]]] }

\* the candidate a row stands for, read off its cell column and its
\* row-digit column
CandidateOf(m, n) ==
  LET cols == RowColumns(m, n)
      cc == CHOOSE x \in cols : \A y \in cols : x <= y
      rd == CHOOSE x \in cols :
              Cardinality({ y \in cols : y < x }) = IF Cardinality(cols) > 1
                                                    THEN 1 ELSE 0
  IN << cc \div 9, cc % 9, (rd % 9) + 1 >>

\* C7: the built matrix holds exactly one candidate row for each given cell
\* and nine for each empty cell; the row of (r,c,v) has exactly four nodes,
\* one in each of the columns r*9+c, 81+r*9+(v-1), 162+c*9+(v-1) and
\* 243+((r/3)*3+c/3)*9+(v-1), linked in one circular row list.
C7_BuiltMatrixRows ==
  AfterBuild =>
    /\ dlx.nodeCnt - (DLX_COLS + 1) = 4 * Cardinality(Candidates(grid0))
    /\ \A n \in RowNodes(dlx) :
         /\ Cardinality(RowOf(dlx, n)) = 4
         /\ dlx.right[dlx.right[dlx.right[dlx.right[n]]]] = n
         /\ dlx.left[dlx.right[n]] = n
         /\ CandidateOf(dlx, n) \in Candidates(grid0)
         /\ RowColumns(dlx, n) = CandidateColumns(CandidateOf(dlx, n))
         /\ impl = "sudoku_c" =>
              dlx.row_id[n] = CandidateOf(dlx, n)[1] * 81
                              + CandidateOf(dlx, n)[2] * 9
                              + (CandidateOf(dlx, n)[3] - 1)
    /\ { CandidateOf(dlx, n) : n \in RowNodes(dlx) } = Candidates(grid0)

\* C7 witness: a matrix was built for a grid with given and empty cells.
C7_Witness ==
  /\ AfterBuild
  /\ EmptyCells(grid0) # { } /\ EmptyCells(grid0) # Cells
  /\ dlx.nodeCnt = DLX_COLS + 1
                   + 4 * (SIZE * SIZE + 8 * Cardinality(EmptyCells(grid0)))

\* the number of nodes met walking down from a column header back to it
RECURSIVE column_walk(_, _, _, _)
column_walk(m, c, node, n) ==
  IF node = c \/ n > 2 * SIZE THEN n
  ELSE column_walk(m, c, m.down[node], n + 1)

ColumnLength(m, c) == column_walk(m, c, m.down[c], 0)

\* C8: after construction and throughout the search, the size of every
\* active column is the number of nodes linked in its vertical list.
C8_SizeIsListLength ==
  Searching =>
    LET act == ActiveColumns(dlx)
    IN \A x \in 1 .. Len(act) :
         dlx.size[act[x]] = ColumnLength(dlx, act[x])

\* C8 witness: in the middle of the search, after columns were uncovered
\* again, an active column holds several rows.
C8_Witness ==
  /\ pc = "row" /\ ops # << >> /\ ops[1][1] = "uncover"
  /\ LET act == ActiveColumns(dlx)
     IN \E x \in 1 .. Len(act) :
          dlx.size[act[x]] > 1 /\ ColumnLength(dlx, act[x]) > 1

\* C9 as stated: the grid passed in holds the same 81 values after the
\* call as before it, on success as on failure.
C9_InputUntouched ==
  pc = "done" => grid = grid0

\* C9 amended: part_001 never writes the grid passed in; sudoku.c writes
\* nothing to it when it reports failure, and on success writes the
\* completed grid into it, changing only cells that were 0.
C9_InputKeptOrCompletedInPlace ==
  /\ impl = "part_001" => grid = grid0
  /\ impl = "sudoku_c" =>
       /\ KeepsClues(grid, grid0)
       /\ (pc = "done" /\ ~result) => grid = grid0
       /\ pc \notin { "free", "done", "fault" } => grid = grid0

\* C9 witness: sudoku.c has reported success and the grid passed in now
\* holds digits where it held 0.
C9_Witness ==
  /\ pc = "done" /\ impl = "sudoku_c" /\ result
  /\ grid # grid0 /\ EmptyCells(grid) = { }

\* C10 as stated: for a grid with a duplicate digit in a unit the solver
\* never faults and never reports success, and when it has returned the
\* caller's grid (sudoku.c) or output grid (part_001) is as before the call.
C10_DuplicateIsOrdinaryFailure ==
  (pc \in { "fault", "done" } /\ HasDuplicate(grid0)) =>
     /\ pc # "fault"
     /\ ~result
     /\ grid = grid0 /\ out = out0

\* C10 witness: the search has refused a grid with a duplicate digit and
\* the matrix is about to be released.
C10_Witness ==
  pc = "free" /\ ~result /\ HasDuplicate(grid0)

\* C11 as stated: on every exit path of solve_dlx, free_dlx_solver has
\* released every node init_dlx_solver allocated (root header, column
\* headers, row nodes), none left unfreed, and no node was freed again or
\* read after it was freed.
C11_EveryNodeFreedOnce ==
  (impl = "sudoku_c" /\ pc \in { "done", "fault" }) =>
     /\ pc # "fault"
     /\ freed = 0 .. (dlx.nodeCnt - 1)

\* C11 witness: after a failed search free_dlx_solver met a node it had
\* already freed, with nodes of the matrix still unfreed.
C11_Witness ==
  /\ impl = "sudoku_c" /\ pc = "fault" /\ ~result
  /\ freed # { } /\ Cardinality(freed) < dlx.nodeCnt

\* C12: the solver is idempotent on solved grids: for a complete rule-valid
\* input grid the call does not fault, reports success, and the grid it
\* delivers equals the input in all 81 cells.
C12_SolvedGridIsFixedPoint ==
  (pc \in { "free", "fault", "done" } /\ RuleValid(grid0)) =>
     /\ pc # "fault"
     /\ result
     /\ pc = "done" => Delivered = grid0

\* C12 witness: a solve of a complete rule-valid grid other than the base
\* grid has ended.
C12_Witness ==
  /\ pc = "done" /\ result /\ RuleValid(grid0)
  /\ grid0 # GridOf(BaseGrid) /\ Delivered = grid0


(* ---------------- functions applied on their own ---------------- *)

\* the solver is not running
SolverIdle ==
  /\ grid = ZeroGrid
  /\ out = StaleGrid
  /\ grid0 = grid
  /\ out0 = out
  /\ dlx = NoStore
  /\ dlx0 = dlx
  /\ stack = << >>
  /\ pc = "idle"
  /\ ret = FALSE
  /\ solution = << >>
  /\ solution_count = 0
  /\ result = FALSE
  /\ steps = 0
  /\ coverStack = << >>
  /\ ops = << >>
  /\ freed = { }

\* ... and no solver is selected
NoSolve == impl = "none" /\ SolverIdle

\* a candidate (r, c, v) and which of the four nodes of its row is recorded
RowArgs(fn) ==
  { [fn |-> fn, r |-> r, c |-> c, v |-> v, k |-> k] :
       r \in Idx, c \in Idx, v \in Digits, k \in 0 .. 3 }

\* storage with room for the columns and a few rows
RowStore == ZeroStore(GridOf(BaseGrid))

\* init_dlx_solver builds the row of (r, c, v); solve_dlx decodes the row_id
\* of its k-th node
eval_init_dlx_solver ==
  /\ arg.fn = "init_dlx_solver" /\ Len(val) = 0
  /\ LET m0 == link_columns(RowStore)
         m == AddCellRows(m0, arg.r, arg.c, arg.v, arg.v)
         id == m.row_id[m0.nodeCnt + arg.k]
     IN val' = << decode_rows(ZeroGrid, [i \in { 0 } |-> id], 0, 1) >>
  /\ UNCHANGED << solveVars, dealVars, arg >>

\* solve_dlx, lines 366-374: the decode of one recorded row_id
eval_solve_dlx ==
  /\ arg.fn = "solve_dlx" /\ Len(val) = 0
  /\ val' = << decode_rows(ZeroGrid, [i \in { 0 } |-> arg.id], 0, 1) >>
  /\ UNCHANGED << solveVars, dealVars, arg >>

\* dlx_build_from_board builds the row of (r, c, v); dlx_extract_solution
\* decodes it from its k-th node
eval_dlx_extract_solution ==
  /\ arg.fn = "dlx_extract_solution" /\ Len(val) = 0
  /\ LET m0 == dlx_init(RowStore)
         st == add_cell_rows([m |-> m0, rowID |-> 0], arg.r, arg.c, arg.v, arg.v)
     IN val' = << dlx_extract_solution(st.m, [i \in { 0 } |-> m0.nodeCnt + arg.k], 1) >>
  /\ UNCHANGED << solveVars, dealVars, arg >>

\* the grid that is empty but for v at (r, c)
OnlyCell(r, c, v) == [ZeroGrid EXCEPT ![r][c] = v]

\* C13: decoding inverts encoding.  In sudoku.c the row built for (r, c, v)
\* carries a row_id that decodes to v at (r, c) and nothing else, whichever
\* of its nodes is taken, and every id in 0..728 decodes to the one
\* (r, c, v) with r*81 + c*9 + (v-1) = id; in part_001 the row built for
\* (r, c, v) decodes to v at (r, c) from each of its four nodes.
C13_DecodeInvertsEncode ==
  Len(val) = 1 =>
    /\ arg.fn \in { "init_dlx_solver", "dlx_extract_solution" } =>
          val[1] = OnlyCell(arg.r, arg.c, arg.v)
    /\ arg.fn = "solve_dlx" =>
          \E r \in Idx, c \in Idx, v \in Digits :
             /\ val[1] = OnlyCell(r, c, v)
             /\ r = arg.id \div 81 /\ c = (arg.id % 81) \div 9
             /\ v = (arg.id % 9) + 1
             /\ r * 81 + c * 9 + (v - 1) = arg.id

C13_Witness ==
  /\ arg.fn = "dlx_extract_solution" /\ arg.k = 3 /\ arg.r = 8 /\ arg.v = 9
  /\ Len(val) = 1 /\ val[1][8][arg.c] = 9


(* ---------------- new game: filling a grid ---------------- *)

\* rand(): the C library's stream, stood for by a linear congruential one;
\* the value returned is the new state, between 0 and 65536
rand(x) == (x * 75 + 74) % 65537

\* the seeds srand() may have set the stream to
Seeds == { 4, 9, 18 }

\* part_001 shuffle, lines 142-147 (sudoku.c fill_grid, lines 133-138): the
\* array a[0..n-1] is the sequence st.a, a[i] being st.a[i + 1]; st.x is the
\* state of rand()
RECURSIVE shuffle(_, _)
shuffle(st, i) ==
  IF i <= 0 \/ st.x < 0 THEN st
  ELSE LET x1 == rand(st.x)
           j == x1 % (i + 1)
           a == st.a
       IN shuffle([a |-> [a EXCEPT ![i + 1] = a[j + 1], ![j + 1] = a[i + 1]],
                   x |-> x1], i - 1)

\* faulty variant: the start of the box taken with % in place of /
is_valid_placement_wrong_box(g, row, col, num) ==
  LET sr == (row % SUBGRID) * SUBGRID
      sc == (col % SUBGRID) * SUBGRID
      er == sr + SUBGRID
      ec == sc + SUBGRID
  IN /\ \A i \in 0 .. (SIZE - 1) : ~(g[row][i] = num \/ g[i][col] = num)
     /\ \A i \in sr .. (er - 1) : \A j \in sc .. (ec - 1) : g[i][j] # num

\* sudoku.c is_valid_placement, lines 105-119
is_valid_placement(g, row, col, num) ==
  LET sr == (row \div SUBGRID) * SUBGRID
      sc == (col \div SUBGRID) * SUBGRID
      er == sr + SUBGRID
      ec == sc + SUBGRID
  IN /\ \A i \in 0 .. (SIZE - 1) : ~(g[row][i] = num \/ g[i][col] = num)
     /\ \A i \in sr .. (er - 1) : \A j \in sc .. (ec - 1) : g[i][j] # num

\* faulty variant: the box is not looked at
isSafe_no_box(board, r, c, v) ==
  /\ \A x \in 0 .. 8 : board[r][x] # v
  /\ \A y \in 0 .. 8 : board[y][c] # v

\* part_001 isSafe, lines 224-232
isSafe(board, r, c, v) ==
  LET br == (r \div 3) * 3
      bc == (c \div 3) * 3
  IN /\ \A x \in 0 .. 8 : board[r][x] # v
     /\ \A y \in 0 .. 8 : board[y][c] # v
     /\ \A i \in 0 .. 2 : \A j \in 0 .. 2 : board[br + i][bc + j] # v

\* the test the fill of the running program uses
placement_ok(g, r, c, v) ==
  IF impl = "sudoku_c" THEN is_valid_placement(g, r, c, v)
  ELSE isSafe(g, r, c, v)

\* an activation record of fill_grid / fillCellRowWise: the cell, the
\* shuffled digits nums[0..8] (nums[i] is f.nums[i + 1]) and the loop index.
\* entry is not a variable of the program: it keeps the grid as the call
\* found it (the zeroed grid for the call generate_complete_grid /
\* generateSolvedBoardByRows makes).
FillFrame(row, col) ==
  [row |-> row, col |-> col, nums |-> << >>, i |-> 0, entry |-> ZeroGrid]

\* next_row, next_col
NextCell(f) ==
  IF f.col + 1 = SIZE THEN FillFrame(f.row + 1, 0)
  ELSE FillFrame(f.row, f.col + 1)

\* faulty variant: the digit at the loop index is placed untested
first_valid_untested(g, f, i) == IF i >= SIZE THEN SIZE ELSE i

\* the least loop index from f.i on whose digit may be placed, SIZE if none
RECURSIVE first_valid(_, _, _)
first_valid(g, f, i) ==
  IF i >= SIZE THEN SIZE
  ELSE IF placement_ok(g, f.row, f.col, f.nums[i + 1]) THEN i
  ELSE first_valid(g, f, i + 1)

\* fill_grid, lines 122-138 (fillCellRowWise, lines 156-162): the end of the
\* grid, part_001's step over a filled cell, else the shuffle of the digits
fill_grid_enter ==
  /\ gpc = "fill_enter"
  /\ LET f == fstack[Len(fstack)]
     IN IF f.row = SIZE
        THEN /\ gret' = TRUE
             /\ fstack' = Pop(fstack)
             /\ gpc' = "fill_return"
             /\ UNCHANGED rnd
        ELSE IF impl = "part_001" /\ gen[f.row][f.col] # 0
        THEN /\ fstack' = SetTop(fstack,
                                  [NextCell(f) EXCEPT !.entry = f.entry])
             /\ UNCHANGED << gret, gpc, rnd >>
        ELSE LET st == shuffle([a |-> [i \in 1 .. SIZE |-> i], x |-> rnd],
                               SIZE - 1)
             IN /\ fstack' = SetTop(fstack, [f EXCEPT !.nums = st.a, !.i = 0])
                /\ rnd' = st.x
                /\ gpc' = "fill_loop"
                /\ UNCHANGED gret
  /\ UNCHANGED << solveVars, level, gen, removed, game, arg, val >>

\* fill_grid, lines 140-143 (fillCellRowWise, lines 163-167): the loop runs
\* to the next digit that may be placed, writes it and calls itself
fill_grid_place ==
  /\ gpc = "fill_loop"
  /\ LET f == fstack[Len(fstack)]
         j == first_valid(gen, f, f.i)
     IN /\ j < SIZE
        /\ gen' = [gen EXCEPT ![f.row][f.col] = f.nums[j + 1]]
        /\ fstack' = Append(SetTop(fstack, [f EXCEPT !.i = j]),
                            [NextCell(f) EXCEPT !.entry = gen'])
  /\ gpc' = "fill_enter"
  /\ UNCHANGED << solveVars, rnd, level, gret, removed, game, arg, val >>

\* fill_grid, lines 140-147 (fillCellRowWise, lines 163-171): no digit is
\* left to place, return false
fill_grid_exhausted ==
  /\ gpc = "fill_loop"
  /\ first_valid(gen, fstack[Len(fstack)], fstack[Len(fstack)].i) = SIZE
  /\ gret' = FALSE
  /\ fstack' = Pop(fstack)
  /\ gpc' = "fill_return"
  /\ UNCHANGED << solveVars, rnd, level, gen, removed, game, arg, val >>

\* fill_grid, line 143 (fillCellRowWise, line 166): the call returned true
fill_grid_return_true ==
  /\ gpc = "fill_return" /\ fstack # << >> /\ gret
  /\ fstack' = Pop(fstack)
  /\ UNCHANGED << solveVars, rnd, level, gen, gpc, gret, removed, game, arg,
                  val >>

\* faulty variant: the loop index is not advanced, the digit that led
\* nowhere is tried again
fill_grid_return_false_again ==
  /\ gpc = "fill_return" /\ fstack # << >> /\ ~gret
  /\ LET f == fstack[Len(fstack)]
     IN gen' = [gen EXCEPT ![f.row][f.col] = 0]
  /\ gpc' = "fill_loop"
  /\ UNCHANGED << solveVars, rnd, level, fstack, gret, removed, game, arg,
                  val >>

\* faulty variant: the cell keeps the digit that led nowhere
fill_grid_return_false_keep ==
  /\ gpc = "fill_return" /\ fstack # << >> /\ ~gret
  /\ LET f == fstack[Len(fstack)]
     IN fstack' = SetTop(fstack, [f EXCEPT !.i = f.i + 1])
  /\ gpc' = "fill_loop"
  /\ UNCHANGED << solveVars, rnd, level, gen, gret, removed, game, arg, val >>

\* fill_grid, lines 143-144 (fillCellRowWise, lines 166-167): the call
\* returned false, the cell is emptied and the loop goes on
fill_grid_return_false ==
  /\ gpc = "fill_return" /\ fstack # << >> /\ ~gret
  /\ LET f == fstack[Len(fstack)]
     IN /\ gen' = [gen EXCEPT ![f.row][f.col] = 0]
        /\ fstack' = SetTop(fstack, [f EXCEPT !.i = f.i + 1])
  /\ gpc' = "fill_loop"
  /\ UNCHANGED << solveVars, rnd, level, gret, removed, game, arg, val >>


(* ---------------- src/sudoku.c: start_new_game ---------------- *)

\* the Difficulty values the menu buttons carry, lines 13-18
Difficulties == { 30, 40, 50, 60 }

\* a SudokuGame before its first game, with the fields of UIState the
\* handlers use (activate, lines 1117-1120).  A non-zero timer_id is never
\* compared with another id: 1 stands for any id g_timeout_add_seconds
\* returned; timer_live tells whether that source still exists and sources
\* counts the timer sources installed in the main loop.
NoSudokuGame ==
  [grid |-> ZeroGrid, solution |-> ZeroGrid, original |-> ZeroGrid,
   validation |-> ZeroGrid, difficulty |-> 0, score |-> 0, mistakes |-> 0,
   seconds_elapsed |-> 0, game_over |-> FALSE,
   selected_row |-> 0 - 1, selected_col |-> 0 - 1, selected_number |-> 0 - 1,
   timer_id |-> 0, timer_live |-> FALSE, sources |-> 0]

\* g_source_remove(ui->timer_id): an id whose source is gone removes nothing
g_source_remove(g) ==
  [g EXCEPT !.sources = IF g.timer_live THEN @ - 1 ELSE @,
            !.timer_live = FALSE]

\* "if (ui->timer_id) { g_source_remove(ui->timer_id); ui->timer_id = 0; }",
\* as in lines 613, 684-687, 715, 724-727, 747-750, 797 and 808
remove_timer(g) ==
  IF g.timer_id # 0 THEN [g_source_remove(g) EXCEPT !.timer_id = 0] ELSE g

\* "ui->timer_id = g_timeout_add_seconds(1, timer_tick, ui)", lines 689,
\* 752, 798 and 810
add_timer(g) ==
  [g EXCEPT !.timer_id = 1, !.timer_live = TRUE, !.sources = @ + 1]

\* timer_tick has returned G_SOURCE_REMOVE: the main loop destroys the
\* source that was dispatched
source_removed(g) ==
  [g EXCEPT !.sources = IF g.timer_live THEN @ - 1 ELSE @,
            !.timer_live = FALSE]

\* start_new_game, line 777, generate_complete_grid, lines 151-152: the
\* solution grid is zeroed and fill_grid(grid, 0, 0) is called
start_new_game_begin ==
  /\ gpc = "start" /\ impl = "sudoku_c"
  /\ gen' = ZeroGrid
  /\ fstack' = << FillFrame(0, 0) >>
  /\ gpc' = "fill_enter"
  /\ UNCHANGED << solveVars, rnd, level, gret, removed, game, arg, val >>

\* start_new_game, lines 777-779: fill_grid has returned (its value is not
\* looked at), the solution is copied to the playing grid and remove_numbers
\* starts with removed = 0
start_new_game_copy ==
  /\ gpc = "fill_return" /\ fstack = << >> /\ impl = "sudoku_c"
  /\ game' = [game EXCEPT !.solution = gen, !.grid = gen]
  /\ removed' = 0
  /\ gpc' = "remove"
  /\ UNCHANGED << solveVars, rnd, level, gen, fstack, gret, arg, val >>

\* remove_numbers, lines 157-164: one turn of the loop
remove_numbers_step ==
  /\ gpc = "remove" /\ removed < level
  /\ LET x1 == rand(rnd)
         r == x1 % SIZE
         x2 == rand(x1)
         c == x2 % SIZE
     IN /\ rnd' = x2
        /\ IF game.grid[r][c] # 0
           THEN /\ game' = [game EXCEPT !.grid[r][c] = 0]
                /\ removed' = removed + 1
           ELSE UNCHANGED << game, removed >>
  /\ UNCHANGED << solveVars, level, gen, fstack, gpc, gret, arg, val >>

\* start_new_game, lines 780-798: remove_numbers has returned; nothing is
\* selected and the timer is started
start_new_game_end ==
  /\ gpc = "remove" /\ ~(removed < level)
  /\ game' = add_timer(remove_timer(
                [game EXCEPT !.original = game.grid, !.validation = ZeroGrid,
                          !.difficulty = level, !.score = 0, !.mistakes = 0,
                          !.seconds_elapsed = 0, !.game_over = FALSE,
                          !.selected_row = 0 - 1, !.selected_col = 0 - 1,
                          !.selected_number = 0 - 1]))
  /\ steps' = 0
  /\ gpc' = "dealt"
  /\ UNCHANGED << impl, grid, out, grid0, out0, dlx, dlx0, stack, pc, ret,
                  solution, solution_count, result, coverStack, ops, freed,
                  rnd, level, gen, fstack, gret, removed, arg, val >>

(* ---------------- src/unnamed/part_001: generateNewPuzzle ---------------- *)

\* the levels asked for: the ends and the middle of the scale and one value
\* beyond each end
Levels == { 0, 1, 5, 10, 11 }

\* the grids of App before their first game
NoApp ==
  [board |-> ZeroGrid, fixed |-> ZeroGrid, original |-> ZeroGrid,
   solution |-> ZeroGrid, sel_r |-> 0, sel_c |-> 0, errors |-> 0,
   game_over |-> 0]

\* mapComplexityToClues, lines 197-202
mapComplexityToClues(lv) ==
  LET l1 == IF lv < 1 THEN 1 ELSE lv
      l2 == IF l1 > 10 THEN 10 ELSE l1
      MIN_CLUES == 22
      MAX_CLUES == 60
  IN MIN_CLUES + ((l2 - 1) * (MAX_CLUES - MIN_CLUES)) \div 9

\* faulty variant: no cell is emptied, the target is ignored
clear_cells_none(b, idx, k, filled, target_clues) == b

\* makePuzzleSimple, lines 186-191: the loop over the shuffled positions
RECURSIVE clear_cells(_, _, _, _, _)
clear_cells(b, idx, k, filled, target_clues) ==
  IF ~(k < 81 /\ filled > target_clues) \/ b[0][0] < 0 THEN b
  ELSE LET pos == idx[k + 1]
           r == pos \div 9
           c == pos % 9
       IN IF b[r][c] = 0
          THEN clear_cells(b, idx, k + 1, filled, target_clues)
          ELSE clear_cells([b EXCEPT ![r][c] = 0], idx, k + 1, filled - 1,
                           target_clues)

\* faulty variant: every cell is marked fixed
makePuzzleSimple_all_fixed(board, target_clues, x) ==
  LET t1 == IF target_clues < 17 THEN 17 ELSE target_clues
      t2 == IF t1 > 81 THEN 81 ELSE t1
      sh == shuffle([a |-> [i \in 1 .. 81 |-> i - 1], x |-> x], 80)
      b == clear_cells(board, sh.a, 0, 81, t2)
  IN [board |-> b, fixed |-> [r \in Idx |-> [c \in Idx |-> 1]], x |-> sh.x]

\* makePuzzleSimple, lines 179-195; x is the state of rand()
makePuzzleSimple(board, target_clues, x) ==
  LET t1 == IF target_clues < 17 THEN 17 ELSE target_clues
      t2 == IF t1 > 81 THEN 81 ELSE t1
      sh == shuffle([a |-> [i \in 1 .. 81 |-> i - 1], x |-> x], 80)
      b == clear_cells(board, sh.a, 0, 81, t2)
  IN [board |-> b,
      fixed |-> [r \in Idx |-> [c \in Idx |-> IF b[r][c] # 0 THEN 1 ELSE 0]],
      x |-> sh.x]

\* generateNewPuzzle, lines 205-207, generateSolvedBoardByRows, lines
\* 175-176: gen is cleared and fillCellRowWise(gen, 0, 0) is called
generateNewPuzzle_begin ==
  /\ gpc = "start" /\ impl = "part_001"
  /\ gen' = ZeroGrid
  /\ fstack' = << FillFrame(0, 0) >>
  /\ gpc' = "fill_enter"
  /\ UNCHANGED << solveVars, rnd, level, gret, removed, game, arg, val >>

\* generateNewPuzzle, lines 207-211: the fill has returned; on failure
\* return 0, else copy gen to the board, make the puzzle, copy it to
\* original and call sudoku_solve_algoX(board, solution)
generateNewPuzzle_deal ==
  /\ gpc = "fill_return" /\ fstack = << >> /\ impl = "part_001"
  /\ IF ~gret
     THEN /\ gpc' = "failed"
          /\ UNCHANGED << game, rnd, grid, grid0, out, out0, pc >>
     ELSE LET mp == makePuzzleSimple(gen, mapComplexityToClues(level), rnd)
          IN /\ game' = [game EXCEPT !.board = mp.board, !.fixed = mp.fixed,
                                     !.original = mp.board]
             /\ rnd' = mp.x
             /\ grid' = mp.board
             /\ grid0' = mp.board
             /\ out' = game.solution
             /\ out0' = game.solution
             /\ pc' = "start"
             /\ gpc' = "solve"
  /\ UNCHANGED << impl, dlx, dlx0, stack, ret, solution, solution_count,
                  result, steps, coverStack, ops, freed, level, gen, fstack,
                  gret, removed, arg, val >>

\* faulty variant: the puzzle itself is reported as the solution
generateNewPuzzle_end_puzzle ==
  /\ gpc = "solve" /\ pc = "done"
  /\ game' = [game EXCEPT !.solution = game.board,
                          !.sel_r = 0, !.sel_c = 0, !.errors = 0,
                          !.game_over = 0]
  /\ gpc' = "dealt"
  /\ UNCHANGED << solveVars, rnd, level, gen, fstack, gret, removed, arg,
                  val >>

\* generateNewPuzzle, lines 211-213, action_new, lines 579-581: the solver
\* has returned; its grid is the solution, or gen if it failed
generateNewPuzzle_end ==
  /\ gpc = "solve" /\ pc = "done"
  /\ game' = [game EXCEPT !.solution = IF result THEN out ELSE gen,
                          !.sel_r = 0, !.sel_c = 0, !.errors = 0,
                          !.game_over = 0]
  /\ gpc' = "dealt"
  /\ UNCHANGED << solveVars, rnd, level, gen, fstack, gret, removed, arg,
                  val >>

(* ---------------- specification of the new game ---------------- *)

InitGen ==
  /\ impl \in { "sudoku_c", "part_001" }
  /\ SolverIdle
  /\ rnd \in Seeds
  /\ level \in IF impl = "sudoku_c" THEN Difficulties ELSE Levels
  /\ gen = StaleGrid
  /\ fstack = << >>
  /\ gpc = "start"
  /\ gret = FALSE
  /\ removed = 0
  /\ game = IF impl = "sudoku_c" THEN NoSudokuGame ELSE NoApp
  /\ arg = [fn |-> "none"]
  /\ val = << >>

NextGen ==
  \/ start_new_game_begin
  \/ start_new_game_copy
  \/ remove_numbers_step
  \/ start_new_game_end
  \/ generateNewPuzzle_begin
  \/ generateNewPuzzle_deal
  \/ generateNewPuzzle_end
  \/ fill_grid_enter
  \/ fill_grid_place
  \/ fill_grid_exhausted
  \/ fill_grid_return_true
  \/ fill_grid_return_false
  \/ sudoku_solve_algoX_begin
  \/ dlx_search_enter
  \/ dlx_search_row
  \/ dlx_search_exhausted
  \/ dlx_search_return_true
  \/ dlx_search_return_false
  \/ sudoku_solve_algoX_end

SpecGen == InitGen /\ [][NextGen]_vars


(* ---------------- claims about the new game ---------------- *)

\* the outermost call of fill_grid / fillCellRowWise has returned
FillDone == gpc = "fill_return" /\ fstack = << >>

\* C14: started at (0, 0) on an all-zero grid, fill_grid / fillCellRowWise
\* returns true and leaves a grid whose rows, columns and boxes are each a
\* permutation of 1..9, whatever the shuffles gave.
C14_FillSucceeds == FillDone => (gret /\ RuleValid(gen))

C14_Witness ==
  /\ FillDone /\ gret /\ RuleValid(gen)
  /\ impl = "part_001" /\ gen # GridOf(BaseGrid)


\* generateNewPuzzle has its puzzle back from sudoku_solve_algoX
PuzzleSolved == impl = "part_001" /\ gpc = "solve" /\ pc = "done"

\* C15: every puzzle generateNewPuzzle makes is solved by
\* sudoku_solve_algoX, the solved grid agrees with the puzzle on every fixed
\* cell, and so the solution is never copied from gen after a failed solve;
\* nor does the generation itself fail.
C15_GeneratedPuzzleSolves ==
  /\ gpc # "failed"
  /\ PuzzleSolved =>
       /\ result
       /\ \A rc \in Cells :
            game.fixed[rc[1]][rc[2]] = 1 =>
               out[rc[1]][rc[2]] = game.board[rc[1]][rc[2]]

C15_Witness ==
  /\ PuzzleSolved /\ result /\ level = 1
  /\ Cardinality(EmptyCells(game.board)) = 59
  /\ out # gen /\ KeepsClues(out, game.board)

\* a new game has been dealt
Dealt == gpc = "dealt"

\* the solution, puzzle and playing grid of the dealt game
DealtSolution == game.solution
DealtOriginal == game.original
DealtPlaying == IF impl = "sudoku_c" THEN game.grid ELSE game.board

\* C16: once a new game is dealt, the solution is a grid whose rows,
\* columns and boxes are permutations of 1..9 and which agrees with the
\* puzzle on every clue, the playing grid is the puzzle, and in part_001
\* fixed is 1 exactly on the non-zero cells of the puzzle.
C16_DealtGameConsistent ==
  Dealt =>
    /\ RuleValid(DealtSolution)
    /\ KeepsClues(DealtSolution, DealtOriginal)
    /\ DealtPlaying = DealtOriginal
    /\ impl = "part_001" =>
         \A rc \in Cells :
            game.fixed[rc[1]][rc[2]] = 1 <=> DealtOriginal[rc[1]][rc[2]] # 0

C16_Witness ==
  /\ Dealt /\ impl = "part_001" /\ level = 0
  /\ RuleValid(game.solution) /\ game.solution # gen
  /\ game.board = game.original /\ game.fixed[0][0] = 0


(* ---------------- single applications: puzzle making ---------------- *)

\* complete grids to make puzzles from
FullGrids == SolvedGrids \cup { GridOf(BaseGrid) }

\* requested clue counts: around both clamps, in between, and the ends of int
Targets ==
  { 0 - INT_MAX - 1, 0 - 5, 0, 16, 17, 18, 40, 80, 81, 82, 1000, INT_MAX }

\* the number of non-zero cells of g
ClueCount(g) == Cardinality(Cells \ EmptyCells(g))

eval_makePuzzleSimple ==
  /\ arg.fn = "makePuzzleSimple" /\ Len(val) = 0
  /\ val' = << makePuzzleSimple(arg.board, arg.target_clues, arg.x) >>
  /\ UNCHANGED << solveVars, dealVars, arg >>

(* ---------------- single applications: difficulty ---------------- *)

\* levels handed to mapComplexityToClues: the scale 1..10, values on both
\* sides of it and the ends of int
MapLevels == ((0 - 2) .. 12) \cup { 0 - INT_MAX - 1, INT_MAX }

\* the mapping applied to two levels a and b
eval_mapComplexityToClues ==
  /\ arg.fn = "mapComplexityToClues" /\ Len(val) = 0
  /\ val' = << mapComplexityToClues(arg.a), mapComplexityToClues(arg.b) >>
  /\ UNCHANGED << solveVars, dealVars, arg >>

\* 3 * l in 32-bit two's complement, by 16-bit halves
times3(l) ==
  LET hi == l \div 65536
      lo == l % 65536
      p == 3 * lo
      h1 == (3 * hi + (p \div 65536)) % 65536
      h2 == IF h1 >= 32768 THEN h1 - 65536 ELSE h1
  IN h2 * 65536 + (p % 65536)

\* 56 - x in 32-bit two's complement
from56(x) ==
  IF x < 56 - INT_MAX THEN ((56 - ((x + INT_MAX) + 1)) - INT_MAX) - 1
  ELSE 56 - x

\* 3 * l and 56 - 3 * l are both representable in int
InRange(l) ==
  /\ l <= INT_MAX \div 3 /\ l >= 0 - (INT_MAX \div 3)
  /\ 3 * l >= 56 - INT_MAX

\* part_002 calculate_cells_to_remove_for_difficulty, line 32: the values
\* 56 - (3 * level) may take; where the arithmetic overflows, the wrapped
\* value or any other int
target_clues_of(lv) ==
  IF InRange(lv) THEN { 56 - 3 * lv }
  ELSE { from56(times3(lv)), 0 - INT_MAX - 1, 0 - 1, 0, 40, INT_MAX }

\* faulty variant: only the lower clamp is applied
calculate_cells_unclamped_above(t0) ==
  LET t1 == IF t0 < 24 THEN 24 ELSE t0
  IN 81 - t1

\* part_002 calculate_cells_to_remove_for_difficulty, lines 34-41, t0 being
\* the value of 56 - (3 * level); TOTAL_CELLS is 81
calculate_cells_to_remove_for_difficulty(t0) ==
  LET t1 == IF t0 < 24 THEN 24 ELSE t0
      t2 == IF t1 > 56 THEN 56 ELSE t1
  IN 81 - t2

\* levels handed to calculate_cells_to_remove_for_difficulty: the buttons'
\* 1..10, values around them, the first levels that overflow and the ends
\* of int
CalcLevels ==
  ((0 - 3) .. 20)
  \cup { INT_MAX \div 3, INT_MAX \div 3 + 1, 0 - (INT_MAX \div 3) - 20,
         INT_MAX, 0 - INT_MAX - 1 }

eval_calculate_cells_to_remove_for_difficulty ==
  /\ arg.fn = "calculate_cells_to_remove_for_difficulty" /\ Len(val) = 0
  /\ \E t0 \in target_clues_of(arg.level) :
        val' = << calculate_cells_to_remove_for_difficulty(t0) >>
  /\ UNCHANGED << solveVars, dealVars, arg >>

\* sudoku.c start_new_game, lines 775-779: the Difficulty value of the
\* button is the count handed to remove_numbers
eval_Difficulty ==
  /\ arg.fn = "Difficulty" /\ Len(val) = 0
  /\ val' = << arg.diff >>
  /\ UNCHANGED << solveVars, dealVars, arg >>

(* ---------------- single applications: placement test ---------------- *)

\* grids the placement tests are asked about: empty, one digit, a puzzle and
\* a complete grid
SafeGrids ==
  { ZeroGrid, OnlyCell(0, 0, 5), WithHoles(MaxHoles), GridOf(BaseGrid) }

eval_isSafe ==
  /\ arg.fn = "isSafe" /\ Len(val) = 0
  /\ val' = << isSafe(arg.g, arg.r, arg.c, arg.v) >>
  /\ UNCHANGED << solveVars, dealVars, arg >>

eval_is_valid_placement ==
  /\ arg.fn = "is_valid_placement" /\ Len(val) = 0
  /\ val' = << is_valid_placement(arg.g, arg.r, arg.c, arg.v) >>
  /\ UNCHANGED << solveVars, dealVars, arg >>

(* ------------------- part_001: the win test by the rules ------------------ *)

\* checkUnit9 without the test of the bits already seen
RECURSIVE checkUnit9_no_repeat(_)
checkUnit9_no_repeat(a) ==
  IF Len(a) = 0 THEN 1
  ELSE IF a[1] < 1 \/ a[1] > 9 THEN 0
  ELSE checkUnit9_no_repeat(Tail(a))

\* the loop of checkUnit9 from index i on; seen is the set of the bit
\* positions set in the mask
RECURSIVE checkUnit9_from(_, _, _)
checkUnit9_from(a, i, seen) ==
  IF i >= SIZE THEN 1
  ELSE LET v == a[i + 1]
       IN  IF v < 1 \/ v > 9 THEN 0
           ELSE IF v \in seen THEN 0
           ELSE checkUnit9_from(a, i + 1, seen \cup { v })

\* int checkUnit9(const int a[9]); a is the sequence of the nine entries
checkUnit9(a) == checkUnit9_from(a, 0, { })

\* the nine cells of row r, of column c and of the box at (br, bc), in the
\* order isSolvedByRules copies them
row_unit(b, r) == [k \in 1 .. SIZE |-> b[r][k - 1]]
col_unit(b, c) == [k \in 1 .. SIZE |-> b[k - 1][c]]
box_unit(b, br, bc) ==
  [k \in 1 .. SIZE |-> b[br + ((k - 1) \div SUBGRID)][bc + ((k - 1) % SUBGRID)]]

\* int isSolvedByRules(int b[9][9]): rows, then columns, then boxes
isSolvedByRules(b) ==
  IF \E r \in Idx : checkUnit9(row_unit(b, r)) = 0 THEN 0
  ELSE IF \E c \in Idx : checkUnit9(col_unit(b, c)) = 0 THEN 0
  ELSE IF \E br \in { 0, 3, 6 } : \E bc \in { 0, 3, 6 } :
            checkUnit9(box_unit(b, br, bc)) = 0 THEN 0
  ELSE 1

\* inputs of the win test: the complete rule-valid grids; grids with an empty
\* cell; grids with a value outside 1..9; grids where exactly one kind of unit
\* repeats a digit; the grid whose only filled row is 1..9
RowOnly == [r \in Idx |-> [c \in Idx |-> IF r = 0 THEN c + 1 ELSE 0]]
RowsRepeat == [GridOf(BaseGrid) EXCEPT ![0][0] = BaseGrid[2][1],
                                       ![1][0] = BaseGrid[1][1]]
ColsRepeat == [GridOf(BaseGrid) EXCEPT ![0][0] = BaseGrid[1][2],
                                       ![0][1] = BaseGrid[1][1]]
BoxesRepeat == [r \in Idx |-> [c \in Idx |-> ((r + c) % SIZE) + 1]]
RuleGrids ==
  FullGrids
  \cup { ZeroGrid, WithHoles(MaxHoles), RowOnly, RowsRepeat, ColsRepeat,
         BoxesRepeat }
  \cup { [GridOf(BaseGrid) EXCEPT ![rc[1]][rc[2]] = v] :
            rc \in AlterCells, v \in { 0 - 1, 0, 1, 9, 10 } }

\* inputs of checkUnit9: one unit of every kind of every grid above
RuleUnits ==
  { row_unit(g, u) : g \in RuleGrids, u \in { 0, 8 } }
  \cup { col_unit(g, u) : g \in RuleGrids, u \in { 0, 8 } }
  \cup { box_unit(g, u, u) : g \in RuleGrids, u \in { 0, 6 } }

eval_checkUnit9 ==
  /\ arg.fn = "checkUnit9" /\ Len(val) = 0
  /\ val' = << checkUnit9(arg.a) >>
  /\ UNCHANGED << solveVars, dealVars, arg >>

eval_isSolvedByRules ==
  /\ arg.fn = "isSolvedByRules" /\ Len(val) = 0
  /\ val' = << isSolvedByRules(arg.b) >>
  /\ UNCHANGED << solveVars, dealVars, arg >>


\* the placement tests on a complete grid with one cell emptied, for every
\* cell and every digit
ClearedArgs ==
  { [fn |-> f, g |-> [g EXCEPT ![r][c] = 0], r |-> r, c |-> c, v |-> v] :
       f \in { "isSafe", "is_valid_placement" }, g \in FullGrids,
       r \in Idx, c \in Idx, v \in Digits }

(* ---------------- specification of the single applications ---------------- *)

\* the applications explored
PureArgs ==
  RowArgs("init_dlx_solver") \cup RowArgs("dlx_extract_solution")
  \cup { [fn |-> "solve_dlx", id |-> id] : id \in 0 .. (DLX_ROWS - 1) }
  \cup { [fn |-> "makePuzzleSimple", board |-> g, target_clues |-> t, x |-> x] :
            g \in FullGrids, t \in Targets, x \in Seeds }
  \cup { [fn |-> "mapComplexityToClues", a |-> a, b |-> b] :
            a \in MapLevels, b \in MapLevels }
  \cup { [fn |-> "calculate_cells_to_remove_for_difficulty", level |-> l] :
            l \in CalcLevels }
  \cup { [fn |-> "Difficulty", diff |-> d] : d \in Difficulties }
  \cup { [fn |-> f, g |-> g, r |-> r, c |-> c, v |-> v] :
            f \in { "isSafe", "is_valid_placement" }, g \in SafeGrids,
            r \in Idx, c \in Idx, v \in Digits }
  \cup ClearedArgs
  \cup { [fn |-> "checkUnit9", a |-> a] : a \in RuleUnits }
  \cup { [fn |-> "isSolvedByRules", b |-> b] : b \in RuleGrids }

InitPure ==
  /\ NoSolve
  /\ NoDeal
  /\ arg \in PureArgs
  /\ val = << >>

NextPure ==
  \/ eval_init_dlx_solver
  \/ eval_solve_dlx
  \/ eval_dlx_extract_solution
  \/ eval_makePuzzleSimple
  \/ eval_mapComplexityToClues
  \/ eval_calculate_cells_to_remove_for_difficulty
  \/ eval_Difficulty
  \/ eval_isSafe
  \/ eval_is_valid_placement
  \/ eval_checkUnit9
  \/ eval_isSolvedByRules

SpecPure == InitPure /\ [][NextPure]_vars


(* ---------------- claims about single applications ---------------- *)

\* min(max(t, 17), 81)
Clamp17To81(t) == IF t < 17 THEN 17 ELSE IF t > 81 THEN 81 ELSE t

\* C17: for every target_clues, makePuzzleSimple applied to a full grid
\* leaves exactly min(max(target_clues, 17), 81) non-zero cells, hence
\* never fewer than 17 nor more than 81, and each of them keeps the value
\* the full grid had there.
C17_PuzzleHasClampedClueCount ==
  (arg.fn = "makePuzzleSimple" /\ Len(val) = 1) =>
     /\ ClueCount(val[1].board) = Clamp17To81(arg.target_clues)
     /\ ClueCount(val[1].board) \in 17 .. 81
     /\ \A rc \in Cells :
          val[1].board[rc[1]][rc[2]] # 0 =>
             val[1].board[rc[1]][rc[2]] = arg.board[rc[1]][rc[2]]

C17_Witness ==
  /\ arg.fn = "makePuzzleSimple" /\ Len(val) = 1
  /\ arg.target_clues = 0 - 5 /\ ClueCount(val[1].board) = 17
  /\ ClueCount(arg.board) = 81


\* mapComplexityToClues has been applied to the levels a and b
Mapped == arg.fn = "mapComplexityToClues" /\ Len(val) = 2

\* C18 as stated: the difficulty mapping is monotonic, a higher level never
\* yields more clues: for levels a < b the clue count mapped from b is at
\* most the one mapped from a.
C18_HigherLevelFewerClues ==
  (Mapped /\ arg.a < arg.b) => val[2] <= val[1]

C18_Witness ==
  /\ Mapped /\ arg.a = 1 /\ arg.b = 2
  /\ val[1] = 22 /\ val[2] = 26


\* C19: every difficulty mapping lands in [17, 81] clues, whatever the
\* level: mapComplexityToClues returns a clue count in [17, 81];
\* calculate_cells_to_remove_for_difficulty returns a count r of cells to
\* remove with 81 - r in [17, 81], 56 - 3*level being computed in machine
\* integers; each Difficulty constant of sudoku.c, taken as the count of
\* cells to remove, leaves 81 minus it in [17, 81].
C19_MappingsWithinClueRange ==
  /\ Mapped => (val[1] \in 17 .. 81 /\ val[2] \in 17 .. 81)
  /\ (arg.fn \in { "calculate_cells_to_remove_for_difficulty", "Difficulty" }
      /\ Len(val) = 1) => (81 - val[1]) \in 17 .. 81

C19_Witness ==
  /\ arg.fn = "calculate_cells_to_remove_for_difficulty" /\ Len(val) = 1
  /\ arg.level = INT_MAX /\ ~InRange(arg.level)
  /\ val[1] = 81 - 24


\* isSafe or is_valid_placement has been applied to (g, r, c, v)
Tested == arg.fn \in { "isSafe", "is_valid_placement" } /\ Len(val) = 1

Permutation(a) == { a[k] : k \in 1 .. Len(a) } = Digits

\* C21: isSolvedByRules(b) returns 1 exactly when every row, column and box
\* of b is a permutation of 1..9, and 0 otherwise (so for every grid with an
\* empty cell, a value outside 1..9 or a digit repeated in a unit); checkUnit9
\* returns 1 exactly for a unit that is a permutation of 1..9, whatever the
\* rest of the grid holds.
C21_SolvedByRulesIffAllUnitsPermutations ==
  /\ (arg.fn = "isSolvedByRules" /\ Len(val) = 1) =>
       /\ val[1] \in { 0, 1 }
       /\ val[1] = 1 <=> RuleValid(arg.b)
       /\ val[1] = 1 <=>
            /\ \A r \in Idx : Permutation(row_unit(arg.b, r))
            /\ \A c \in Idx : Permutation(col_unit(arg.b, c))
            /\ \A br \in { 0, 3, 6 } : \A bc \in { 0, 3, 6 } :
                 Permutation(box_unit(arg.b, br, bc))
  /\ (arg.fn = "checkUnit9" /\ Len(val) = 1) =>
       /\ val[1] \in { 0, 1 }
       /\ val[1] = 1 <=> Permutation(arg.a)

\* the win test accepted a grid that is not the base grid
C21_Witness ==
  /\ arg.fn = "isSolvedByRules" /\ Len(val) = 1
  /\ arg.b \in SolvedGrids /\ val[1] = 1

(* ------------------------------- C22 -------------------------------------- *)

\* a placement test applied to an empty cell (r,c) of a grid that becomes a
\* complete rule-valid grid when v is written there
RestoresSolved ==
  /\ arg.fn \in { "isSafe", "is_valid_placement" }
  /\ arg.g[arg.r][arg.c] = 0
  /\ RuleValid([arg.g EXCEPT ![arg.r][arg.c] = arg.v])

\* C22: for every complete rule-valid grid G, isSolvedByRules(G) returns 1,
\* and for every cell (r,c), isSafe and is_valid_placement applied to G with
\* that cell set to 0 return true for the value G[r][c].
C22_SolvedGridPassesAllTests ==
  /\ (arg.fn = "isSolvedByRules" /\ Len(val) = 1 /\ RuleValid(arg.b)) =>
       val[1] = 1
  /\ (RestoresSolved /\ Len(val) = 1) => val[1] = TRUE

\* is_valid_placement accepted the digit taken out of the last cell of a
\* complete grid
C22_Witness ==
  /\ RestoresSolved /\ Len(val) = 1
  /\ arg.fn = "is_valid_placement" /\ arg.r = 8 /\ arg.c = 8
  /\ val[1] = TRUE


(* ======================= the game being played ========================== *)

(* ---------------- src/sudoku.c: the tests of the playing grid ------------ *)

\* faulty variant: the cell itself is compared too
is_valid_with_self(g, row, col, num) ==
  /\ \A i \in 0 .. (SIZE - 1) : g[row][i] # num /\ g[i][col] # num

\* sudoku.c is_valid, lines 171-186: no other cell of the row, the column
\* or the box holds num
is_valid(g, row, col, num) ==
  LET sr == (row \div SUBGRID) * SUBGRID
      sc == (col \div SUBGRID) * SUBGRID
      er == sr + SUBGRID
      ec == sc + SUBGRID
  IN /\ \A i \in 0 .. (SIZE - 1) :
          /\ ~(i # col /\ g[row][i] = num)
          /\ ~(i # row /\ g[i][col] = num)
     /\ \A i \in sr .. (er - 1) : \A j \in sc .. (ec - 1) :
          ~(~(i = row /\ j = col) /\ g[i][j] = num)

\* sudoku.c is_complete, lines 188-193
is_complete(g) == \A i \in Idx : \A j \in Idx : g[i][j] # 0

\* part_001 boardComplete, lines 234-239
boardComplete(board) ==
  IF \E r \in Idx : \E c \in Idx : board[r][c] = 0 THEN 0 ELSE 1

(* ---------------- the games explored ---------------- *)

\* the puzzle of the explored games: the base grid without its first thirty
\* cells (the count the easiest level of sudoku.c removes)
PlayOriginal == WithHoles(CHOOSE d \in Difficulties : \A e \in Difficulties : d <= e)

\* the cells the player selects: two empty cells of one row and a clue
PlayCells == { << 0, 0 >>, << 0, 1 >>, << 8, 8 >> }

\* the digits the player enters: the one the first selected cell holds in
\* the solution and one a clue of its column holds
PlayDigits == { BaseGrid[1][1], BaseGrid[9][1] }

\* the playing grid after hints in every empty cell but the selected ones
PlayProgress ==
  [r \in Idx |-> [c \in Idx |->
      IF << r, c >> \in PlayCells THEN PlayOriginal[r][c] ELSE BaseGrid[r + 1][c + 1]]]

\* 1 on the cells the hints filled
HintMarks ==
  [r \in Idx |-> [c \in Idx |->
      IF PlayOriginal[r][c] = 0 /\ PlayProgress[r][c] # 0 THEN 1 ELSE 0]]

\* 1 on the clues
FixedOf(g) == [r \in Idx |-> [c \in Idx |-> IF g[r][c] # 0 THEN 1 ELSE 0]]

\* bounds of the counters that grow without limit
MaxScore == 10
MaxSeconds == 1

\* a handler may run: the game is on the screen and no solve is under way
Playing(which) == gpc = "play" /\ impl = which

\* the handlers that the older copy of the program kept in part_002 (lines
\* 1670-2585) has word for word run in both programs
PlayingEither == Playing("sudoku_c") \/ Playing("part_002")

(* ---------------- src/sudoku.c: the handlers ---------------- *)

\* what selected_number is set to for the cell value v
shown_number(v) == IF v > 0 THEN v ELSE 0 - 1

\* on_click, lines 471-495, for a click inside the cell (row, col)
on_click ==
  /\ PlayingEither
  /\ \E rc \in PlayCells :
       game' = [game EXCEPT !.selected_row = rc[1], !.selected_col = rc[2],
                  !.selected_number = shown_number(game.grid[rc[1]][rc[2]])]
  /\ UNCHANGED << solveVars, rnd, level, gen, fstack, gpc, gret, removed, arg,
                  val >>

\* MAX_MISTAKES, line 11
MAX_MISTAKES == 3

\* faulty variant: the third mistake does not end the game
number_clicked_no_end(g, num) ==
  LET r == g.selected_row
      c == g.selected_col
      prev == g.grid[r][c]
      g1 == [g EXCEPT !.grid[r][c] = num]
      g2 == IF num = 0 THEN [g1 EXCEPT !.validation[r][c] = 0]
            ELSE IF is_valid(g1.grid, r, c, num)
            THEN [g1 EXCEPT !.validation[r][c] = 1,
                            !.score = IF prev = 0 THEN @ + 10 ELSE @]
            ELSE [g1 EXCEPT !.validation[r][c] = 2, !.mistakes = @ + 1]
  IN [g2 EXCEPT !.selected_number = shown_number(g2.grid[r][c])]

\* on_number_clicked, lines 1052-1109, once past its early returns: the game
\* record after the button num
number_clicked(g, num) ==
  LET r == g.selected_row
      c == g.selected_col
      prev == g.grid[r][c]
      g1 == [g EXCEPT !.grid[r][c] = num]
      g2 == IF num = 0 THEN [g1 EXCEPT !.validation[r][c] = 0]
            ELSE IF is_valid(g1.grid, r, c, num)
            THEN [g1 EXCEPT !.validation[r][c] = 1,
                            !.score = IF prev = 0 THEN @ + 10 ELSE @]
            ELSE [g1 EXCEPT !.validation[r][c] = 2,
                            !.mistakes = @ + 1,
                            !.game_over = IF g.mistakes + 1 >= MAX_MISTAKES
                                          THEN TRUE ELSE @]
  IN [g2 EXCEPT !.selected_number = shown_number(g2.grid[r][c])]

\* on_number_clicked, lines 1052-1109: the early returns are the guard
on_number_clicked ==
  /\ Playing("sudoku_c")
  /\ ~game.game_over
  /\ ~(game.selected_row = 0 - 1 \/ game.selected_col = 0 - 1)
  /\ game.original[game.selected_row][game.selected_col] = 0
  /\ \E num \in PlayDigits \cup { 0 } :
       /\ game' = number_clicked(game, num)
       /\ game'.score <= MaxScore
  /\ UNCHANGED << solveVars, rnd, level, gen, fstack, gpc, gret, removed, arg,
                  val >>

\* faulty variant: the clue test is left out
on_clear_cell_clicked_any_cell ==
  /\ Playing("sudoku_c")
  /\ game.selected_row # 0 - 1 /\ game.selected_col # 0 - 1
  /\ game' = [game EXCEPT !.grid[game.selected_row][game.selected_col] = 0,
                !.validation[game.selected_row][game.selected_col] = 0,
                !.selected_number = 0 - 1]
  /\ UNCHANGED << solveVars, rnd, level, gen, fstack, gpc, gret, removed, arg,
                  val >>

\* on_clear_cell_clicked, lines 635-650
on_clear_cell_clicked ==
  /\ PlayingEither
  /\ game.selected_row # 0 - 1 /\ game.selected_col # 0 - 1
  /\ game.original[game.selected_row][game.selected_col] = 0
  /\ game' = [game EXCEPT !.grid[game.selected_row][game.selected_col] = 0,
                !.validation[game.selected_row][game.selected_col] = 0,
                !.selected_number = 0 - 1]
  /\ UNCHANGED << solveVars, rnd, level, gen, fstack, gpc, gret, removed, arg,
                  val >>

\* on_hint_clicked, lines 652-671
on_hint_clicked ==
  /\ PlayingEither
  /\ game.selected_row # 0 - 1 /\ game.selected_col # 0 - 1
  /\ game.original[game.selected_row][game.selected_col] = 0
  /\ game.grid[game.selected_row][game.selected_col] = 0
  /\ game' = [game EXCEPT
                !.grid[game.selected_row][game.selected_col] =
                    game.solution[game.selected_row][game.selected_col],
                !.validation[game.selected_row][game.selected_col] = 1]
  /\ UNCHANGED << solveVars, rnd, level, gen, fstack, gpc, gret, removed, arg,
                  val >>

\* on_reset_clicked, lines 673-694 (restart_game_confirmed, lines 737-757,
\* does the same): the old timer is removed and a new one started
on_reset_clicked ==
  /\ PlayingEither
  /\ game' = add_timer(remove_timer(
                [game EXCEPT !.grid = game.original, !.validation = ZeroGrid,
                   !.selected_number = 0 - 1, !.score = 0, !.mistakes = 0,
                   !.seconds_elapsed = 0, !.game_over = FALSE]))
  /\ steps' = 0
  /\ UNCHANGED << impl, grid, out, grid0, out0, dlx, dlx0, stack, pc, ret,
                  solution, solution_count, result, coverStack, ops, freed,
                  rnd, level, gen, fstack, gpc, gret, removed, arg, val >>

\* every filled cell of g passes is_valid (timer_tick, lines 600-606)
all_valid(g) ==
  \A i \in Idx : \A j \in Idx : g[i][j] # 0 => is_valid(g, i, j, g[i][j])

\* faulty variant: the solved puzzle is not looked for
timer_tick_no_win ==
  /\ Playing("sudoku_c")
  /\ game.timer_live
  /\ IF game.game_over
     THEN game' = source_removed(game)
     ELSE /\ game.seconds_elapsed < MaxSeconds
          /\ LET g1 == [game EXCEPT !.seconds_elapsed = @ + 1]
             IN game' =
                  IF g1.mistakes >= MAX_MISTAKES
                  THEN source_removed([g1 EXCEPT !.game_over = TRUE])
                  ELSE g1
  /\ UNCHANGED << solveVars, rnd, level, gen, fstack, gpc, gret, removed, arg,
                  val >>

\* timer_tick, lines 581-633: the source is destroyed when the callback
\* returns G_SOURCE_REMOVE
timer_tick ==
  /\ Playing("sudoku_c")
  /\ game.timer_live
  /\ IF game.game_over
     THEN game' = source_removed(game)
     ELSE /\ game.seconds_elapsed < MaxSeconds
          /\ LET g1 == [game EXCEPT !.seconds_elapsed = @ + 1]
             IN game' =
                  IF is_complete(g1.grid) /\ all_valid(g1.grid)
                  THEN source_removed(
                          remove_timer([g1 EXCEPT !.game_over = TRUE]))
                  ELSE IF g1.mistakes >= MAX_MISTAKES
                  THEN source_removed([g1 EXCEPT !.game_over = TRUE])
                  ELSE g1
  /\ UNCHANGED << solveVars, rnd, level, gen, fstack, gpc, gret, removed, arg,
                  val >>

\* search, lines 232-272, run to its end inside one handler.  sm is the
\* solver at one point of the run: the matrix m, the activation records of
\* search (k, col, row), where the run stands (at "enter" a call starts, at
\* "row" the row loop tests its row, at "return" a call has returned ret, at
\* "halt" the first call has returned), the fields of the solver, game->steps,
\* and oob, set when solution[k] would be written beyond its 81 entries.
search_step(sm) ==
  LET top == sm.stack[Len(sm.stack)]
  IN IF sm.pc = "enter"
     THEN IF sm.m.right[header] = header
          THEN [sm EXCEPT !.steps = @ + 1, !.solution_count = top.k,
                          !.ret = TRUE, !.pc = "return"]
          ELSE LET col == choose_column(sm.m)
               IN IF col = NULL \/ sm.m.size[col] = 0
                  THEN [sm EXCEPT !.steps = @ + 1, !.ret = FALSE,
                                  !.pc = "return"]
                  ELSE LET m1 == cover(sm.m, col)
                       IN [sm EXCEPT !.steps = @ + 1, !.m = m1,
                              !.stack[Len(sm.stack)] =
                                  [k |-> top.k, col |-> col, row |-> m1.down[col]],
                              !.pc = "row"]
     ELSE IF sm.pc = "row"
     THEN IF top.row = top.col
          THEN [sm EXCEPT !.m = uncover(sm.m, top.col), !.ret = FALSE,
                          !.pc = "return"]
          ELSE IF top.k >= SOLUTION_LEN
          THEN [sm EXCEPT !.oob = TRUE, !.pc = "halt"]
          ELSE LET c1 == cover_row([m |-> sm.m, log |-> << >>], top.row,
                                   sm.m.right[top.row])
               IN [sm EXCEPT !.solution[top.k] = sm.m.row_id[top.row],
                      !.m = c1.m,
                      !.stack = Append(sm.stack,
                          [k |-> top.k + 1, col |-> NULL, row |-> NULL]),
                      !.pc = "enter"]
     ELSE IF Len(sm.stack) = 1
     THEN [sm EXCEPT !.pc = "halt"]
     ELSE IF sm.ret
     THEN [sm EXCEPT !.stack = Pop(sm.stack)]
     ELSE LET caller == sm.stack[Len(sm.stack) - 1]
              u == uncover_row([m |-> sm.m, log |-> << >>], caller.row,
                               sm.m.left[caller.row])
          IN [sm EXCEPT !.m = u.m,
                 !.stack = SetTop(Pop(sm.stack),
                                  [caller EXCEPT !.row = u.m.down[caller.row]]),
                 !.pc = "row"]

RECURSIVE search_block(_, _)
search_block(sm, n) ==
  IF n = 0 \/ sm.pc = "halt" THEN sm
  ELSE search_block(search_step(sm), n - 1)

RECURSIVE search_run(_)
search_run(sm) ==
  IF sm.pc = "halt" THEN sm
  ELSE search_run(search_block(sm, Block))

\* solve_dlx, lines 359-379, as one call on the array g with game->steps at
\* 0: whether it solved, the array afterwards, the steps counted, and ub set
\* when free_dlx_solver reads or frees a freed node (or search wrote beyond
\* solution[80])
solve_dlx(g) ==
  LET m0 == init_dlx_solver(g)
      sm == search_run([m |-> m0,
                        stack |-> << [k |-> 0, col |-> NULL, row |-> NULL] >>,
                        pc |-> "enter", ret |-> FALSE,
                        solution |-> [i \in 0 .. (SOLUTION_LEN - 1) |-> NULL],
                        solution_count |-> 0, steps |-> 0, oob |-> FALSE])
      fr == free_columns(sm.m, [freed |-> { }, ub |-> FALSE], 0)
  IN [solved |-> sm.ret,
      grid |-> IF sm.ret
               THEN decode_rows(g, sm.solution, 0, sm.solution_count)
               ELSE g,
      steps |-> sm.steps,
      ub |-> fr.ub \/ sm.oob]

\* the grids Solve is explored on: the puzzle and the grid in progress, with
\* every content the player or a hint of the dealt solution gives the two
\* selected empty cells
SolveInputs ==
  { [g EXCEPT ![0][0] = a, ![0][1] = b] :
       g \in { PlayOriginal, PlayProgress },
       a \in PlayDigits \cup { 0, BaseGrid[1][1] },
       b \in PlayDigits \cup { 0, BaseGrid[1][2] } }

\* what solve_dlx does on each of them.  The table is worked out once, when
\* the game starts, and kept in val; the handler looks its call up there.
SolveTable == [g \in SolveInputs |-> solve_dlx(g)]

\* on_solve_clicked, lines 696-722: the playing grid is copied over the
\* solution and solve_dlx works on the solution array.  Where the release of
\* the matrix is undefined the program may stop there or go on.
on_solve_clicked ==
  /\ Playing("sudoku_c")
  /\ game.grid \in SolveInputs
  /\ LET s == val[1][game.grid]
         g1 == [game EXCEPT !.solution = s.grid]
     IN /\ steps' = s.steps
        /\ \E fault \in (IF s.ub THEN { TRUE, FALSE } ELSE { FALSE }) :
             IF fault
             THEN /\ game' = g1
                  /\ gpc' = "fault"
             ELSE /\ game' =
                       IF s.solved
                       THEN remove_timer(
                              [g1 EXCEPT !.grid = g1.solution,
                               !.validation = [r \in Idx |-> [c \in Idx |->
                                  IF g1.original[r][c] = 0 THEN 1
                                  ELSE g1.validation[r][c]]],
                               !.game_over = TRUE])
                       ELSE g1
                  /\ gpc' = gpc
  /\ UNCHANGED << impl, grid, out, grid0, out0, dlx, dlx0, stack, pc, ret,
                  solution, solution_count, result, coverStack, ops, freed,
                  rnd, level, gen, fstack, gret, removed, arg, val >>

(* ---------------- src/unnamed/part_001: the handlers ---------------- *)

\* the most empty cells a hint is explored with
MaxSpots == 3

\* on_button_press, lines 589-610, for a click inside the cell (cy, cx)
on_button_press ==
  /\ Playing("part_001")
  /\ \E rc \in PlayCells :
       game' = [game EXCEPT !.sel_r = rc[1], !.sel_c = rc[2]]
  /\ UNCHANGED << solveVars, rnd, level, gen, fstack, gpc, gret, removed, arg,
                  val >>

\* on_key, lines 612-620: the arrow keys move the selection inside the grid
on_key_arrow ==
  /\ Playing("part_001")
  /\ game.game_over = 0
  /\ \E key \in { "Up", "Down", "Left", "Right" } :
       LET r == IF key = "Up" /\ game.sel_r > 0 THEN game.sel_r - 1
                ELSE IF key = "Down" /\ game.sel_r < 8 THEN game.sel_r + 1
                ELSE game.sel_r
           c == IF key = "Left" /\ game.sel_c > 0 THEN game.sel_c - 1
                ELSE IF key = "Right" /\ game.sel_c < 8 THEN game.sel_c + 1
                ELSE game.sel_c
       IN /\ << r, c >> \in PlayCells
          /\ game' = [game EXCEPT !.sel_r = r, !.sel_c = c]
  /\ UNCHANGED << solveVars, rnd, level, gen, fstack, gpc, gret, removed, arg,
                  val >>

\* game_over_dialog, lines 435-455, with the answer "Start again"
start_again(a) ==
  [a EXCEPT !.board = a.original, !.errors = 0, !.game_over = 0]

\* register_error, lines 465-475: the third error opens the dialog, whose
\* answer is restart or quit; the set of the records the call can leave, a
\* closed window marked by game_over = 1 with the dialog answered "Quit"
register_error(a) ==
  LET a1 == [a EXCEPT !.errors = @ + 1]
  IN IF a1.errors >= 3
     THEN { [quit |-> FALSE, app |-> start_again([a1 EXCEPT !.game_over = 1])],
            [quit |-> TRUE, app |-> [a1 EXCEPT !.game_over = 1]] }
     ELSE { [quit |-> FALSE, app |-> a1] }

\* faulty variant: a fixed cell is written like any other
action_place_fixed_too(a, r, c, v) ==
  { [quit |-> FALSE, app |-> [a EXCEPT !.board[r][c] = v]] }

\* action_place, lines 479-506, once past the game_over and range tests; on
\* a win game_over is set for the time of the dialog and cleared again
action_place(a, r, c, v) ==
  IF a.fixed[r][c] # 0 THEN register_error(a)
  ELSE LET old == a.board[r][c]
           a1 == [a EXCEPT !.board[r][c] = 0]
       IN IF v # 0 /\ ~isSafe(a1.board, r, c, v)
          THEN register_error([a1 EXCEPT !.board[r][c] = old])
          ELSE { [quit |-> FALSE, app |-> [a1 EXCEPT !.board[r][c] = v]] }

\* on_key, lines 621-634: a digit key, 0, BackSpace or Delete places v in the
\* selected cell
on_key_digit ==
  /\ Playing("part_001")
  /\ game.game_over = 0
  /\ \E v \in PlayDigits \cup { 0 } :
       \E o \in action_place(game, game.sel_r, game.sel_c, v) :
          /\ game' = o.app
          /\ gpc' = IF o.quit THEN "closed" ELSE gpc
  /\ UNCHANGED << solveVars, rnd, level, gen, fstack, gret, removed, arg, val >>

\* the spots action_hint collects, lines 510-517, in row-major order
hint_spots(a) ==
  { rc \in Cells : a.fixed[rc[1]][rc[2]] = 0 /\ a.board[rc[1]][rc[2]] = 0 }

\* action_hint, lines 508-530: rand() % cnt may pick any of the spots
action_hint ==
  /\ Playing("part_001")
  /\ game.game_over = 0
  /\ Cardinality(hint_spots(game)) <= MaxSpots
  /\ \E rc \in hint_spots(game) :
       game' = [game EXCEPT !.board[rc[1]][rc[2]] = game.solution[rc[1]][rc[2]],
                            !.sel_r = rc[1], !.sel_c = rc[2]]
  /\ UNCHANGED << solveVars, rnd, level, gen, fstack, gpc, gret, removed, arg,
                  val >>

\* action_reset, lines 548-554
action_reset ==
  /\ Playing("part_001")
  /\ game' = [game EXCEPT !.board = game.original, !.errors = 0,
                          !.game_over = 0]
  /\ UNCHANGED << solveVars, rnd, level, gen, fstack, gpc, gret, removed, arg,
                  val >>

(* ---------------- specification of the game being played ---------------- *)

\* a game of either program some moves after its deal: every empty cell but
\* the selected ones was filled by a hint
InitPlay ==
  /\ impl \in { "sudoku_c", "part_001" }
  /\ SolverIdle
  /\ rnd = 0
  /\ level = 0
  /\ gen = ZeroGrid
  /\ fstack = << >>
  /\ gpc = "play"
  /\ gret = FALSE
  /\ removed = 0
  /\ game = IF impl = "sudoku_c"
            THEN [NoSudokuGame EXCEPT !.grid = PlayProgress,
                    !.solution = GridOf(BaseGrid), !.original = PlayOriginal,
                    !.validation = HintMarks,
                    !.difficulty = Cardinality(EmptyCells(PlayOriginal)),
                    !.timer_id = 1, !.timer_live = TRUE, !.sources = 1]
            ELSE [NoApp EXCEPT !.board = PlayProgress,
                    !.fixed = FixedOf(PlayOriginal),
                    !.original = PlayOriginal,
                    !.solution = GridOf(BaseGrid)]
  /\ arg = [fn |-> "solve_dlx"]
  /\ val = << SolveTable >>

NextPlay ==
  \/ on_click
  \/ on_number_clicked
  \/ on_clear_cell_clicked
  \/ on_hint_clicked
  \/ on_reset_clicked
  \/ timer_tick
  \/ on_solve_clicked
  \/ on_button_press
  \/ on_key_arrow
  \/ on_key_digit
  \/ action_hint
  \/ action_reset

SpecPlay == InitPlay /\ [][NextPlay]_vars


(* ------------------------------- C23 -------------------------------------- *)

\* the playing grid and the clue marks of the game on the screen
PlayingGrid == IF impl = "sudoku_c" THEN game.grid ELSE game.board
IsClue(r, c) ==
  IF impl = "sudoku_c" THEN game.original[r][c] # 0 ELSE game.fixed[r][c] # 0

\* C23: whatever the player does after the deal (selecting cells, entering
\* digits, Clear, Hint, Reset, Solve, timer ticks), the puzzle stays the
\* dealt one and every clue cell of the playing grid holds its dealt value.
C23_CluesKeepDealtValue ==
  gpc \in { "play", "fault", "closed" } =>
    /\ game.original = PlayOriginal
    /\ \A rc \in Cells :
         IsClue(rc[1], rc[2]) =>
           /\ game.original[rc[1]][rc[2]] # 0
           /\ PlayingGrid[rc[1]][rc[2]] = game.original[rc[1]][rc[2]]

\* a clue is selected in a game that Solve has completed after a mistake
C23_Witness ==
  /\ gpc = "play" /\ impl = "sudoku_c"
  /\ game.selected_row = 8 /\ game.selected_col = 8
  /\ game.original[game.selected_row][game.selected_col] # 0
  /\ is_complete(game.grid) /\ game.mistakes > 0 /\ game.game_over


(* ------------------------------- C24 -------------------------------------- *)

\* C24 (as stated): between one deal and the next no handler changes the
\* solution of the game, which stays the complete rule-valid grid of the
\* deal.
C24_SolutionNeverChanges ==
  gpc \in { "play", "fault", "closed" } => game.solution = GridOf(BaseGrid)

\* Solve has left a solution that is not a complete grid: the playing grid
\* it could not complete
C24_Witness ==
  /\ gpc = "play" /\ impl = "sudoku_c"
  /\ ~is_complete(game.solution)
  /\ game.solution = game.grid

\* no handler of part_001 writes the solution
C24_Part001SolutionNeverChanges ==
  (impl = "part_001" /\ gpc \in { "play", "closed" }) =>
     game.solution = GridOf(BaseGrid)

(* ------------------------------- C25 -------------------------------------- *)

\* the annotation the current grid gives the cell (r, c)
derived_validation(g, r, c) ==
  IF g[r][c] = 0 THEN 0
  ELSE IF is_valid(g, r, c, g[r][c]) THEN 1
  ELSE 2

\* C25 (as stated): in sudoku.c the annotation of every non-clue cell is the
\* one derived from the current grid: 0 exactly when the cell is empty, 2
\* exactly when its digit fails is_valid on the current grid, 1 exactly when
\* its digit passes.
C25_ValidationDerivedFromGrid ==
  (impl = "sudoku_c" /\ gpc \in { "play", "fault" }) =>
     \A rc \in Cells :
        game.original[rc[1]][rc[2]] = 0 =>
          game.validation[rc[1]][rc[2]] =
             derived_validation(game.grid, rc[1], rc[2])

\* a cell is still marked valid after the same digit was entered in another
\* cell of its row
C25_Witness ==
  /\ impl = "sudoku_c" /\ gpc = "play"
  /\ game.grid[0][1] # 0 /\ game.grid[0][0] = game.grid[0][1]
  /\ game.validation[0][1] = 1 /\ game.validation[0][0] = 2


(* ---------------- specification of the clue removal ---------------- *)

\* the counts remove_numbers is called with: none, one, the smallest and
\* the largest the menu passes (lines 13-18), every cell, one more than
\* every cell
RemoveCounts == { 0, 1, 30, 60, 81, 82 }

\* start_new_game, line 779: remove_numbers is entered on a copy of the
\* full solution grid
InitRemove ==
  /\ impl = "sudoku_c"
  /\ SolverIdle
  /\ rnd \in Seeds
  /\ level \in RemoveCounts
  /\ gen = GridOf(BaseGrid)
  /\ fstack = << >>
  /\ gpc = "remove"
  /\ gret = TRUE
  /\ removed = 0
  /\ game = [NoSudokuGame EXCEPT !.solution = GridOf(BaseGrid),
                                 !.grid = GridOf(BaseGrid)]
  /\ arg = [fn |-> "none"]
  /\ val = << >>

NextRemove ==
  \/ remove_numbers_step
  \/ start_new_game_end

\* the loop is sequential code: a turn that can be taken is taken
SpecRemove == InitRemove /\ [][NextRemove]_vars /\ WF_vars(NextRemove)

(* ------------------------------- C26 -------------------------------------- *)

C26_RemovalConvergesUpTo81 ==
  /\ (level <= SIZE * SIZE) ~> (gpc = "dealt")
  /\ [](gpc = "dealt" =>
          Cardinality(EmptyCells(game.original)) = level)


(* ---------------- src/unnamed/part_001: solves one after another ---------------- *)

\* part_000, line 24: the length of the static node arrays
DLX_NODES == DLX_ROWS * 4 + DLX_COLS + 5

\* the entries of the node arrays the solves explored here can write or
\* read: the header nodes and four nodes for each row of the matrix of the
\* emptiest grid
StaticNodes == DLX_COLS + 1 + 4 * CandidateCount(WithHoles(MaxHoles))

\* the static arrays when the program starts: all zero (lines 5-7)
StaticStore ==
  LET z == [i \in 0 .. (StaticNodes - 1) |-> 0]
  IN [left |-> z, right |-> z, up |-> z, down |-> z, column |-> z,
      size |-> z, row_id |-> z, nodeCnt |-> 0,
      rowhead |-> [r \in 0 .. (DLX_ROWS - 1) |-> 0]]

\* faulty variant: the matrix is built by the first solve only; later
\* solves find it as the last one left it
dlx_build_once(m, board) ==
  IF m.nodeCnt = 0
  THEN add_board_rows([m |-> dlx_init(m), rowID |-> 0], board, 0).m
  ELSE m

\* dlx_build_from_board, lines 100-115, on the static arrays as the last
\* solve left them
dlx_build_onto(m, board) ==
  add_board_rows([m |-> dlx_init(m), rowID |-> 0], board, 0).m

\* one step of dlx_search, lines 85-98, on sm = [m, ans, ansK, stack, pc,
\* ret, oob]: the steps are those of dlx_search_enter, dlx_search_row,
\* dlx_search_exhausted, dlx_search_return_true and dlx_search_return_false
dlx_search_step(sm) ==
  LET top == sm.stack[Len(sm.stack)]
  IN IF sm.pc = "enter"
     THEN IF sm.m.right[header] = header
          THEN [sm EXCEPT !.ret = TRUE, !.pc = "return"]
          ELSE LET c == dlx_chooseCol(sm.m)
               IN IF c = NULL
                  THEN [sm EXCEPT !.ret = FALSE, !.pc = "return"]
                  ELSE LET m1 == dlx_cover(sm.m, c)
                       IN [sm EXCEPT !.m = m1,
                              !.stack[Len(sm.stack)] =
                                  [col |-> c, row |-> m1.down[c]],
                              !.pc = "row"]
     ELSE IF sm.pc = "row"
     THEN IF top.row = top.col
          THEN [sm EXCEPT !.m = dlx_uncover(sm.m, top.col), !.ret = FALSE,
                          !.pc = "return"]
          ELSE IF sm.ansK >= DLX_ROWS
          THEN [sm EXCEPT !.oob = TRUE, !.pc = "halt"]
          ELSE LET c1 == dlx_cover_row([m |-> sm.m, log |-> << >>], top.row,
                                       sm.m.right[top.row])
               IN [sm EXCEPT !.ans[sm.ansK] = top.row,
                      !.ansK = sm.ansK + 1,
                      !.m = c1.m,
                      !.stack = Append(sm.stack,
                                       [col |-> NULL, row |-> NULL]),
                      !.pc = "enter"]
     ELSE IF Len(sm.stack) = 1
     THEN [sm EXCEPT !.pc = "halt"]
     ELSE IF sm.ret
     THEN [sm EXCEPT !.stack = Pop(sm.stack)]
     ELSE LET caller == sm.stack[Len(sm.stack) - 1]
              u == dlx_uncover_row([m |-> sm.m, log |-> << >>], caller.row,
                                   sm.m.left[caller.row])
          IN [sm EXCEPT !.m = u.m,
                 !.ansK = sm.ansK - 1,
                 !.stack = SetTop(Pop(sm.stack),
                                  [caller EXCEPT !.row = u.m.down[caller.row]]),
                 !.pc = "row"]

RECURSIVE dlx_search_block(_, _)
dlx_search_block(sm, n) ==
  IF n = 0 \/ sm.pc = "halt" THEN sm
  ELSE dlx_search_block(dlx_search_step(sm), n - 1)

RECURSIVE dlx_search(_)
dlx_search(sm) ==
  IF sm.pc = "halt" THEN sm
  ELSE dlx_search(dlx_search_block(sm, Block))

\* sudoku_solve_algoX, lines 133-138, as one call: st holds the static
\* arrays [m, ans] as the call finds them, o is the caller's output array.
\* DLX_ansK is set to 0 by dlx_init (line 28).
sudoku_solve_algoX(st, in, o) ==
  LET sm == dlx_search([m |-> dlx_build_onto(st.m, in), ans |-> st.ans,
                        ansK |-> 0,
                        stack |-> << [col |-> NULL, row |-> NULL] >>,
                        pc |-> "enter", ret |-> FALSE, oob |-> FALSE])
  IN [ret |-> sm.ret,
      out |-> IF sm.ret THEN dlx_extract_solution(sm.m, sm.ans, sm.ansK)
              ELSE o,
      m |-> sm.m, ans |-> sm.ans, ansK |-> sm.ansK, oob |-> sm.oob]

\* the grids solved one after another: the full grid, a puzzle solved after
\* giving up branches, a grid refused after a long descent and a grid with
\* a duplicate digit.  Their matrices have different numbers of rows, so a
\* solve finds nodes of a longer one behind its own.
AgainGrids == LinkGrids \cup { GridOf(BaseGrid) }

\* the most solves made one after another
MaxSolves == 3

\* what the first solve of the program gives for each grid, the output
\* array holding StaleGrid before
FirstSolve ==
  [g \in AgainGrids |->
     LET s == sudoku_solve_algoX(
                 [m |-> StaticStore,
                  ans |-> [i \in 0 .. (DLX_ROWS - 1) |-> 0]], g, StaleGrid)
     IN [ret |-> s.ret, out |-> s.out]]

\* the program has made no solve yet: the static arrays are all zero and
\* no call is running.  arg.calls lists the grids solved so far and val
\* keeps the table of the first solves.
InitAgain ==
  /\ impl = "part_001"
  /\ grid = ZeroGrid
  /\ out = StaleGrid
  /\ grid0 = grid
  /\ out0 = out
  /\ dlx = StaticStore
  /\ dlx0 = dlx
  /\ stack = << >>
  /\ pc = "done"
  /\ ret = FALSE
  /\ solution = [i \in 0 .. (DLX_ROWS - 1) |-> 0]
  /\ solution_count = 0
  /\ result = FALSE
  /\ steps = 0
  /\ coverStack = << >>
  /\ ops = << >>
  /\ freed = { }
  /\ NoDeal
  /\ arg = [fn |-> "sudoku_solve_algoX", calls |-> << >>]
  /\ val = << FirstSolve >>

\* sudoku_solve_algoX, lines 134-135, called when an earlier call has
\* returned: the matrix is built on the static arrays as they are, DLX_ans
\* keeps its entries, DLX_ansK is set to 0 by dlx_init (line 28).  The
\* caller passes the output array of the last solve (generateNewPuzzle,
\* line 211, passes app->solution each time).
sudoku_solve_algoX_again ==
  /\ pc = "done" /\ impl = "part_001"
  /\ Len(arg.calls) < MaxSolves
  /\ \E g \in AgainGrids :
       /\ grid' = g
       /\ grid0' = g
       /\ dlx' = dlx_build_onto(dlx, g)
       /\ arg' = [arg EXCEPT !.calls = Append(arg.calls, g)]
  /\ dlx0' = dlx'
  /\ out0' = out
  /\ solution_count' = 0
  /\ stack' = << Frame(0, << >>) >>
  /\ pc' = "enter"
  /\ ops' = << >>
  /\ coverStack' = << >>
  /\ UNCHANGED << impl, out, ret, solution, result, steps, freed, rnd, level,
                  gen, fstack, gpc, gret, removed, game, val >>

NextAgain ==
  \/ sudoku_solve_algoX_again
  \/ dlx_search_enter
  \/ dlx_search_row
  \/ dlx_search_exhausted
  \/ dlx_search_return_true
  \/ dlx_search_return_false
  \/ sudoku_solve_algoX_end

SpecAgain == InitAgain /\ [][NextAgain]_vars

(* ------------------------------- C27 -------------------------------------- *)

\* C27: whatever solves were made before, a solve of part_001 returns what
\* the first solve of the program returns for the same grid, and its output
\* grid is that solve's grid on success and the array as passed in on
\* failure.
C27_SolvesIndependent ==
  (pc = "done" /\ Len(arg.calls) > 0) =>
     /\ result = val[1][grid].ret
     /\ result => out = val[1][grid].out
     /\ ~result => out = out0

\* a successful solve made after a failed and a successful one
C27_Witness ==
  /\ pc = "done" /\ Len(arg.calls) = MaxSolves
  /\ result /\ out = val[1][grid].out
  /\ ~val[1][arg.calls[1]].ret
  /\ val[1][arg.calls[2]].ret
  /\ arg.calls[2] # grid


(* ------------------------------- C28 -------------------------------------- *)

\* C28: whenever a call of fill_grid / fillCellRowWise returns failure, the
\* grid is the grid the call found when it was entered: every cell it or
\* its recursive calls wrote is 0 again.
C28_FailureRestoresGrid ==
  [][(gpc = "fill_loop" /\ gpc' = "fill_return") =>
        (~gret' /\ gen' = fstack[Len(fstack)].entry)]_vars

\* a call that wrote its cell, called itself, got failure back and now has
\* no digit left is about to return failure with the grid as it found it
C28_Witness ==
  /\ gpc = "fill_loop" /\ Len(fstack) > 1
  /\ fstack[Len(fstack)].i > 0
  /\ first_valid(gen, fstack[Len(fstack)], fstack[Len(fstack)].i) = SIZE
  /\ gen = fstack[Len(fstack)].entry
  /\ gen # ZeroGrid


(* ---------------- specification of the fill on any grid ---------------- *)

\* the grids the fill is started on: the zeroed grid, a grid with one digit,
\* the full grid, a puzzle, the puzzle with a digit in its first cell that
\* its row's clues-to-be exclude, a grid with no completion and a grid with
\* a repeated digit
FillStarts ==
  { ZeroGrid, [ZeroGrid EXCEPT ![0][0] = 5], GridOf(BaseGrid),
    WithHoles(MaxHoles \div 2),
    [WithHoles(MaxHoles \div 2) EXCEPT ![0][0] = BaseGrid[1][2]],
    DeadEndGrid,
    [WithHoles(MaxHoles \div 2) EXCEPT ![SIZE - 1][SIZE - 1] = 9] }

\* fill_grid(grid, 0, 0) / fillCellRowWise(b, 0, 0) is called on a grid that
\* was not zeroed; arg keeps the grid it was called on
InitFill ==
  /\ impl \in { "sudoku_c", "part_001" }
  /\ SolverIdle
  /\ rnd \in Seeds
  /\ level = 0
  /\ gen \in FillStarts
  /\ fstack = << [FillFrame(0, 0) EXCEPT !.entry = gen] >>
  /\ gpc = "fill_enter"
  /\ gret = FALSE
  /\ removed = 0
  /\ game = IF impl = "sudoku_c" THEN NoSudokuGame ELSE NoApp
  /\ arg = [fn |-> "fill", start |-> gen]
  /\ val = << >>

NextFill ==
  \/ fill_grid_enter
  \/ fill_grid_place
  \/ fill_grid_exhausted
  \/ fill_grid_return_true
  \/ fill_grid_return_false

\* the fill is sequential code: a step that can be taken is taken
SpecFill == InitFill /\ [][NextFill]_vars /\ WF_vars(NextFill)

(* ------------------------------- C29 -------------------------------------- *)

\* the place of an activation record in the depth-first order of the fill:
\* its cell, then where it stands: 0 before the shuffle, 3i + 1 in the loop
\* at index i, 3i + 2 while the call made for nums[i] runs, 3i + 3 when
\* that call has returned
FillPlace(k) ==
  LET f == fstack[k]
      sub == IF k < Len(fstack) THEN 3 * f.i + 2
             ELSE IF gpc = "fill_enter" THEN 0
             ELSE IF gpc = "fill_loop" THEN 3 * f.i + 1
             ELSE 3 * f.i + 3
  IN (f.row * SIZE + f.col) * (3 * SIZE + 4) + sub

\* the place of the whole fill: whether the outermost call has returned,
\* then the places of the calls from the outermost to the innermost
FillKey ==
  << IF fstack = << >> THEN 1 ELSE 0 >>
     \o [k \in 1 .. Len(fstack) |-> FillPlace(k)]

\* s comes before t: they agree up to a position where s is smaller
LexLess(s, t) ==
  \E k \in 1 .. Len(s) :
     /\ k <= Len(t)
     /\ s[k] < t[k]
     /\ \A h \in 1 .. (k - 1) : s[h] = t[h]

\* the keys are finitely many: at most one record for each cell and one
\* beyond the grid, loop indices up to SIZE
FillBounded ==
  /\ Len(fstack) <= SIZE * SIZE + 1
  /\ \A k \in 1 .. Len(fstack) :
        /\ fstack[k].i \in 0 .. SIZE
        /\ fstack[k].row * SIZE + fstack[k].col \in 0 .. (SIZE * SIZE)
        /\ fstack[k].col \in Idx

\* a step of the fill can be taken: the guards of fill_grid_enter, of
\* fill_grid_place or fill_grid_exhausted, and of fill_grid_return_true or
\* fill_grid_return_false
FillCanStep ==
  /\ fstack # << >>
  /\ gpc \in { "fill_enter", "fill_loop", "fill_return" }

\* C29: on every starting grid and for every shuffle the fill returns after
\* finitely many steps and never loops: every step moves the fill to a
\* later place of a finite order, and a step can be taken until the
\* outermost call of fill_grid / fillCellRowWise has returned.
C29_FillTerminates ==
  [][/\ LexLess(FillKey, FillKey')
     /\ FillBounded'
     /\ (FillDone' \/ FillCanStep')]_vars

\* the fill of a grid that was not empty has returned false after it had
\* shuffled and called itself
C29_Witness ==
  /\ FillDone /\ ~gret
  /\ arg.start # ZeroGrid /\ EmptyCells(arg.start) # { }
  /\ rnd \notin Seeds

\* the same as a temporal property of SpecFill
C29_FillReturns == <>FillDone

(* ------------------------------- C30 -------------------------------------- *)

\* the cells the recorded rows name (row_id = r * 81 + c * 9 + num - 1)
NamedCells == { solution[i] \div SIZE : i \in 0 .. (solution_count - 1) }

\* C30: on every input grid, conflicts included, search of sudoku.c is never
\* entered with a depth above 81 and never reaches the write of solution[k]
\* with k outside 0..80; when it has succeeded solution_count is 81 and the
\* recorded rows name 81 distinct cells.
C30_SolutionIndexInBounds ==
  impl = "sudoku_c" =>
     /\ \A d \in 1 .. Len(stack) : stack[d].k \in 0 .. SOLUTION_LEN
     /\ (pc = "row" /\ Top.row # Top.col) => Top.k \in 0 .. (SOLUTION_LEN - 1)
     /\ ret => /\ solution_count = SOLUTION_LEN
               /\ NamedCells = 0 .. (SIZE * SIZE - 1)

\* search has succeeded at depth 81 on a grid with empty cells after it had
\* given up rows
C30_Witness ==
  /\ impl = "sudoku_c" /\ pc = "return" /\ ret
  /\ Len(stack) = SOLUTION_LEN + 1 /\ Top.k = SOLUTION_LEN
  /\ solution_count = SOLUTION_LEN
  /\ EmptyCells(grid0) # { }
  /\ steps > SOLUTION_LEN + 1


(* ========== the older copy of the program kept in part_002 ============== *)

\* part_002 search, lines 1814-1821: the whole list of columns is scanned
\* and a column replaces the best one only if it is strictly smaller
choose_column_older(m) ==
  dlx_scan(m, [c |-> m.right[header], best |-> NULL, bS |-> 999999])

\* part_002 search, lines 1806-1846: search of sudoku.c but for the choice
\* of the column
search_step_older(sm) ==
  IF sm.pc = "enter" /\ sm.m.right[header] # header
  THEN LET top == sm.stack[Len(sm.stack)]
           col == choose_column_older(sm.m)
       IN IF col = NULL \/ sm.m.size[col] = 0
          THEN [sm EXCEPT !.steps = @ + 1, !.ret = FALSE, !.pc = "return"]
          ELSE LET m1 == cover(sm.m, col)
               IN [sm EXCEPT !.steps = @ + 1, !.m = m1,
                      !.stack[Len(sm.stack)] =
                          [k |-> top.k, col |-> col, row |-> m1.down[col]],
                      !.pc = "row"]
  ELSE search_step(sm)

RECURSIVE search_block_older(_, _)
search_block_older(sm, n) ==
  IF n = 0 \/ sm.pc = "halt" THEN sm
  ELSE search_block_older(search_step_older(sm), n - 1)

RECURSIVE search_run_older(_)
search_run_older(sm) ==
  IF sm.pc = "halt" THEN sm
  ELSE search_run_older(search_block_older(sm, Block))

\* part_002 solve_dlx, lines 1945-1966, as one call on the array g
solve_dlx_older(g) ==
  LET m0 == init_dlx_solver(g)
      sm == search_run_older([m |-> m0,
                        stack |-> << [k |-> 0, col |-> NULL, row |-> NULL] >>,
                        pc |-> "enter", ret |-> FALSE,
                        solution |-> [i \in 0 .. (SOLUTION_LEN - 1) |-> NULL],
                        solution_count |-> 0, steps |-> 0, oob |-> FALSE])
      fr == free_columns(sm.m, [freed |-> { }, ub |-> FALSE], 0)
  IN [solved |-> sm.ret,
      grid |-> IF sm.ret
               THEN decode_rows(g, sm.solution, 0, sm.solution_count)
               ELSE g,
      steps |-> sm.steps,
      ub |-> fr.ub \/ sm.oob]

\* what the older solve_dlx does on each grid Solve is explored on
SolveTableOlder == [g \in SolveInputs |-> solve_dlx_older(g)]

\* part_002 on_number_clicked, lines 2190-2268: the handler of sudoku.c
\* followed by a test for the solved puzzle
on_number_clicked_older ==
  /\ Playing("part_002")
  /\ ~game.game_over
  /\ ~(game.selected_row = 0 - 1 \/ game.selected_col = 0 - 1)
  /\ game.original[game.selected_row][game.selected_col] = 0
  /\ \E num \in PlayDigits \cup { 0 } :
       LET g2 == number_clicked(game, num)
       IN /\ game' = IF is_complete(g2.grid) /\ all_valid(g2.grid)
                     THEN remove_timer([g2 EXCEPT !.game_over = TRUE])
                     ELSE g2
          /\ game'.score <= MaxScore
  /\ UNCHANGED << solveVars, rnd, level, gen, fstack, gpc, gret, removed, arg,
                  val >>

\* part_002 timer_tick, lines 2112-2154: timer_id is left as it is when the
\* callback ends its source
timer_tick_older ==
  /\ Playing("part_002")
  /\ game.timer_live
  /\ IF game.game_over
     THEN game' = source_removed(game)
     ELSE /\ game.seconds_elapsed < MaxSeconds
          /\ LET g1 == [game EXCEPT !.seconds_elapsed = @ + 1]
             IN game' =
                  IF (is_complete(g1.grid) /\ all_valid(g1.grid))
                     \/ g1.mistakes >= MAX_MISTAKES
                  THEN source_removed([g1 EXCEPT !.game_over = TRUE])
                  ELSE g1
  /\ UNCHANGED << solveVars, rnd, level, gen, fstack, gpc, gret, removed, arg,
                  val >>

\* part_002 on_solve_clicked, lines 2330-2350: the value solve_dlx returns
\* is not looked at
on_solve_clicked_older ==
  /\ Playing("part_002")
  /\ game.grid \in SolveInputs
  /\ LET s == val[1][game.grid]
         g1 == [game EXCEPT !.solution = s.grid]
     IN /\ steps' = s.steps
        /\ \E fault \in (IF s.ub THEN { TRUE, FALSE } ELSE { FALSE }) :
             IF fault
             THEN /\ game' = g1
                  /\ gpc' = "fault"
             ELSE /\ game' = remove_timer(
                       [g1 EXCEPT !.grid = g1.solution,
                          !.validation = [r \in Idx |-> [c \in Idx |->
                             IF g1.original[r][c] = 0 THEN 1
                             ELSE g1.validation[r][c]]],
                          !.game_over = TRUE])
                  /\ gpc' = gpc
  /\ UNCHANGED << impl, grid, out, grid0, out0, dlx, dlx0, stack, pc, ret,
                  solution, solution_count, result, coverStack, ops, freed,
                  rnd, level, gen, fstack, gret, removed, arg, val >>

\* a game of the older program some moves after its deal, as in InitPlay
InitOlder ==
  /\ impl = "part_002"
  /\ SolverIdle
  /\ rnd = 0
  /\ level = 0
  /\ gen = ZeroGrid
  /\ fstack = << >>
  /\ gpc = "play"
  /\ gret = FALSE
  /\ removed = 0
  /\ game = [NoSudokuGame EXCEPT !.grid = PlayProgress,
               !.solution = GridOf(BaseGrid), !.original = PlayOriginal,
               !.validation = HintMarks,
               !.difficulty = Cardinality(EmptyCells(PlayOriginal)),
               !.timer_id = 1, !.timer_live = TRUE, !.sources = 1]
  /\ arg = [fn |-> "solve_dlx"]
  /\ val = << SolveTableOlder >>

NextOlder ==
  \/ on_click
  \/ on_number_clicked_older
  \/ on_clear_cell_clicked
  \/ on_hint_clicked
  \/ on_reset_clicked
  \/ timer_tick_older
  \/ on_solve_clicked_older

SpecOlder == InitOlder /\ [][NextOlder]_vars


(* ------------------------------- C31 -------------------------------------- *)

\* C31 (as stated): Solve ends the game only when the solver found a
\* solution: when solve_dlx returns true the game is over, the playing grid
\* is the solved grid and every non-clue cell is marked valid; when it
\* returns false the playing grid, the validation grid and game_over are
\* left as they were.
C31_SolveEndsGameOnlyWhenSolved ==
  [][(on_solve_clicked \/ on_solve_clicked_older) =>
       LET s == val[1][game.grid]
       IN /\ (s.solved /\ gpc' = "play") =>
               /\ game'.game_over
               /\ game'.grid = s.grid
               /\ \A rc \in Cells :
                    game.original[rc[1]][rc[2]] = 0 =>
                       game'.validation[rc[1]][rc[2]] = 1
          /\ ~s.solved =>
               /\ game'.grid = game.grid
               /\ game'.validation = game.validation
               /\ game'.game_over = game.game_over]_vars

\* the older program has ended a game that holds a conflicting digit and an
\* empty cell marked valid: its Solve failed
C31_Witness ==
  /\ impl = "part_002" /\ gpc = "play"
  /\ game.game_over /\ game.mistakes < MAX_MISTAKES
  /\ game.grid[0][0] = BaseGrid[9][1]
  /\ game.grid[0][1] = 0 /\ game.validation[0][1] = 1


(* ------------------------------- C32 -------------------------------------- *)

C33_FrozenAfterGameOver ==
  [][(impl = "sudoku_c" /\ gpc = "play" /\ game.game_over /\ game'.game_over) =>
       /\ game'.grid = game.grid
       /\ game'.score = game.score
       /\ game'.mistakes = game.mistakes]_vars

\* the game has ended on the third mistake and the two selected cells are
\* empty: the cell of the last wrong digit was cleared afterwards
C33_Witness ==
  /\ impl = "sudoku_c" /\ gpc = "play"
  /\ game.game_over /\ game.mistakes = MAX_MISTAKES
  /\ game.grid[0][0] = 0 /\ game.grid[0][1] = 0


(* ============== src/sudoku.c: the menu and the game screen ============== *)

\* return_to_menu, lines 723-734, called when the player confirms "Return
\* to Menu" (lines 765-769)
return_to_menu ==
  /\ Playing("sudoku_c")
  /\ game' = remove_timer(game)
  /\ gpc' = "menu"
  /\ UNCHANGED << solveVars, rnd, level, gen, fstack, gret, removed, arg, val >>

\* start_new_game, lines 773-799, from the menu, with the deal of the
\* explored games: the generation is modelled by start_new_game_begin to
\* start_new_game_end; here it deals the base grid without its first thirty
\* cells
start_new_game ==
  /\ gpc = "menu" /\ impl = "sudoku_c"
  /\ game' = add_timer(remove_timer(
                [game EXCEPT !.solution = GridOf(BaseGrid),
                   !.grid = PlayOriginal, !.original = PlayOriginal,
                   !.validation = ZeroGrid,
                   !.difficulty = Cardinality(EmptyCells(PlayOriginal)),
                   !.score = 0, !.mistakes = 0, !.seconds_elapsed = 0,
                   !.game_over = FALSE,
                   !.selected_row = 0 - 1, !.selected_col = 0 - 1,
                   !.selected_number = 0 - 1]))
  /\ steps' = 0
  /\ gpc' = "play"
  /\ UNCHANGED << impl, grid, out, grid0, out0, dlx, dlx0, stack, pc, ret,
                  solution, solution_count, result, coverStack, ops, freed,
                  rnd, level, gen, fstack, gret, removed, arg, val >>

\* a game of sudoku.c some moves after its deal
InitSession == InitPlay /\ impl = "sudoku_c"

NextSession ==
  \/ on_click
  \/ on_number_clicked
  \/ on_clear_cell_clicked
  \/ on_hint_clicked
  \/ on_reset_clicked
  \/ timer_tick
  \/ on_solve_clicked
  \/ return_to_menu
  \/ start_new_game

\* the main loop dispatches an installed timer source every second
SpecSession == InitSession /\ [][NextSession]_vars /\ WF_vars(timer_tick)


(* ------------------------------- C34 -------------------------------------- *)

\* a handler calls g_source_remove with an id whose source no longer exists
StaleRemove ==
  /\ game.timer_id # 0 /\ ~game.timer_live
  /\ \/ on_reset_clicked
     \/ return_to_menu
     \/ start_new_game
     \/ on_solve_clicked /\ val[1][game.grid].solved /\ gpc' = "play"

\* C34 (as stated): in sudoku.c timer_id is non-zero only while the source
\* it names is installed, at most one timer source is installed at a time,
\* and over every interleaving of handlers and ticks g_source_remove is
\* never called with the id of a source that was already removed.
C34_TimerIdNamesLiveSource ==
  /\ [](impl = "sudoku_c" =>
          /\ game.timer_id # 0 => game.timer_live
          /\ game.sources <= 1)
  /\ [][~StaleRemove]_vars

\* timer_tick has ended its source after the third mistake and timer_id
\* still holds the id of that source
C34_Witness ==
  /\ impl = "sudoku_c" /\ gpc = "play"
  /\ game.timer_id # 0 /\ ~game.timer_live
  /\ game.game_over /\ game.mistakes = MAX_MISTAKES


(* ------------------------------- C35 -------------------------------------- *)

\* the puzzle on the game screen is solved and the game has not ended yet
Won ==
  /\ impl = "sudoku_c" /\ gpc = "play"
  /\ is_complete(game.grid) /\ all_valid(game.grid)
  /\ ~game.game_over

BoardCells == { << 0, 0 >>, << 0, 1 >>, << 3, 0 >>, << 8, 8 >> }

\* the digits placed: the one the solution holds in both other empty cells,
\* and the one it holds in the first
BoardDigits == { BaseGrid[1][2], BaseGrid[1][1] }

\* the board after hints in every empty cell but the selected ones
BoardProgress ==
  [r \in Idx |-> [c \in Idx |->
      IF << r, c >> \in BoardCells THEN PlayOriginal[r][c]
      ELSE BaseGrid[r + 1][c + 1]]]

\* on_button_press, lines 589-610, for a click inside one of the cells
on_button_press_spot ==
  /\ Playing("part_001")
  /\ \E rc \in BoardCells :
       game' = [game EXCEPT !.sel_r = rc[1], !.sel_c = rc[2]]
  /\ UNCHANGED << solveVars, rnd, level, gen, fstack, gpc, gret, removed, arg,
                  val >>

\* on_key, lines 621-634: the call action_place(a, a->sel_r, a->sel_c, v);
\* arg keeps the call and the App it was made on
on_key_place ==
  /\ Playing("part_001")
  /\ game.game_over = 0
  /\ \E v \in BoardDigits \cup { 0 } :
       /\ \E o \in action_place(game, game.sel_r, game.sel_c, v) :
            /\ game' = o.app
            /\ gpc' = IF o.quit THEN "closed" ELSE gpc
       /\ arg' = [fn |-> "action_place", a |-> game, r |-> game.sel_r,
                  c |-> game.sel_c, v |-> v]
  /\ UNCHANGED << solveVars, rnd, level, gen, fstack, gret, removed, val >>

\* action_new, lines 572-585, with the deal of the explored games: the
\* generation is modelled by generateNewPuzzle_begin to
\* generateNewPuzzle_end; here it deals the base grid without its first
\* thirty cells
action_new ==
  /\ Playing("part_001")
  /\ game' = [game EXCEPT !.board = PlayOriginal,
                !.fixed = FixedOf(PlayOriginal), !.original = PlayOriginal,
                !.solution = GridOf(BaseGrid), !.sel_r = 0, !.sel_c = 0,
                !.errors = 0, !.game_over = 0]
  /\ UNCHANGED << solveVars, rnd, level, gen, fstack, gpc, gret, removed, arg,
                  val >>

\* a game of part_001 some hints after its deal
InitBoard ==
  /\ impl = "part_001"
  /\ SolverIdle
  /\ rnd = 0
  /\ level = 0
  /\ gen = ZeroGrid
  /\ fstack = << >>
  /\ gpc = "play"
  /\ gret = FALSE
  /\ removed = 0
  /\ game = [NoApp EXCEPT !.board = BoardProgress,
               !.fixed = FixedOf(PlayOriginal), !.original = PlayOriginal,
               !.solution = GridOf(BaseGrid)]
  /\ arg = [fn |-> "none"]
  /\ val = << >>

NextBoard ==
  \/ on_button_press_spot
  \/ on_key_place
  \/ action_hint
  \/ action_reset
  \/ action_new

SpecBoard == InitBoard /\ [][NextBoard]_vars


(* ------------------------------- C36 -------------------------------------- *)

\* C36 (as stated): in part_001, after any sequence of action_place,
\* action_hint, action_reset and action_new on a generated puzzle, the board
\* never holds the same non-zero digit twice in one row, column or box.
C36_BoardNeverRepeatsDigit ==
  (impl = "part_001" /\ gpc \in { "play", "closed" }) =>
     ~HasDuplicate(game.board)

\* a hint has put the digit of the solution next to the same digit, which
\* the player had placed in an empty cell of that row
C36_Witness ==
  /\ impl = "part_001" /\ gpc = "play"
  /\ game.board[0][0] = game.board[0][1]
  /\ game.board[0][1] = game.solution[0][1]
  /\ game.sel_r = 0 /\ game.sel_c = 1
  /\ game.board[3][0] = 0


(* ------------------------------- C37 -------------------------------------- *)

\* action_place(a, r, c, v) refuses the placement: the cell is fixed, or v is
\* not 0 and isSafe fails once the cell is emptied
Rejected(a, r, c, v) ==
  \/ a.fixed[r][c] # 0
  \/ v # 0 /\ ~isSafe([a.board EXCEPT ![r][c] = 0], r, c, v)

\* the step is a call of action_place that refuses its placement
RejectedPlacement ==
  /\ on_key_place
  /\ Rejected(game, arg'.r, arg'.c, arg'.v)

\* C37 (as stated): a rejected placement leaves all 81 board cells as they
\* were before the call and increases errors by exactly one, and game_over
\* is set exactly when errors thereby reaches 3.
C37_RejectionOnlyCountsError ==
  [][RejectedPlacement =>
       /\ game'.board = game.board
       /\ game'.errors = game.errors + 1
       /\ game'.game_over = 1 <=> game.errors + 1 = 3]_vars

\* C37 (amended): a first or second rejected placement leaves the board as
\* it was, increases errors by one and leaves game_over at 0.  The third
\* sets game_over and asks the player: after "Quit" the window closes with
\* the board as it was, errors = 3 and game_over = 1; after "Start again"
\* the board is the original puzzle again, errors = 0 and game_over = 0.
C37_RejectionCountsOrRestarts ==
  [][RejectedPlacement =>
       IF game.errors + 1 < 3
       THEN /\ game'.board = game.board
            /\ game'.errors = game.errors + 1
            /\ game'.game_over = 0
            /\ gpc' = "play"
       ELSE \/ /\ gpc' = "closed"
               /\ game'.board = game.board
               /\ game'.errors = game.errors + 1
               /\ game'.game_over = 1
            \/ /\ gpc' = "play"
               /\ game'.board = game.original
               /\ game'.errors = 0
               /\ game'.game_over = 0]_vars

\* the third refused placement, on a clue, was answered "Start again": the
\* entries the player had made are gone
C37_Witness ==
  /\ impl = "part_001" /\ gpc = "play"
  /\ arg.fn = "action_place" /\ arg.a.errors = 2
  /\ arg.a.fixed[arg.r][arg.c] # 0 /\ arg.a.board # arg.a.original
  /\ game.board = game.original /\ game.errors = 0 /\ game.game_over = 0
  /\ game.sel_r = arg.r /\ game.sel_c = arg.c


(* ===================== the win tests side by side ======================= *)

\* the grids the win tests are compared on, all with cells in 0..9: the
\* grids of RuleGrids in that range, and every complete rule-valid grid with
\* one cell emptied, or set to the values 1, 5 and 9
WinGrids ==
  { g \in RuleGrids : \A rc \in Cells : g[rc[1]][rc[2]] \in 0 .. 9 }
  \cup { [g EXCEPT ![rc[1]][rc[2]] = v] :
            g \in FullGrids, rc \in Cells, v \in { 0, 1, 5, 9 } }

\* timer_tick, lines 596-606: the win test of sudoku.c
win_sudoku_c(g) == is_complete(g) /\ all_valid(g)

\* action_place, line 499: the win test of part_001
win_part_001(b) == boardComplete(b) # 0 /\ isSolvedByRules(b) # 0

eval_win_tests ==
  /\ arg.fn = "win" /\ Len(val) = 0
  /\ val' = << [sudoku_c |-> win_sudoku_c(arg.b),
                part_001 |-> win_part_001(arg.b)] >>
  /\ UNCHANGED << solveVars, dealVars, arg >>

InitWin ==
  /\ NoSolve
  /\ NoDeal
  /\ arg \in { [fn |-> "win", b |-> g] : g \in WinGrids }
  /\ val = << >>

NextWin == eval_win_tests

SpecWin == InitWin /\ [][NextWin]_vars


(* ------------------------------- C38 -------------------------------------- *)

\* every row, column and box of g is a permutation of 1..9
UnitsArePermutations(g) ==
  /\ \A r \in Idx : Permutation(row_unit(g, r))
  /\ \A c \in Idx : Permutation(col_unit(g, c))
  /\ \A br \in { 0, 3, 6 } : \A bc \in { 0, 3, 6 } :
       Permutation(box_unit(g, br, bc))

\* C38: for every grid with cells in 0..9, the win test of sudoku.c
\* (is_complete, and is_valid true for every cell with its own value) holds
\* exactly when every row, column and box of the grid is a permutation of
\* 1..9, and so exactly when boardComplete && isSolvedByRules of part_001
\* holds.
C38_WinTestsAgree ==
  (arg.fn = "win" /\ Len(val) = 1) =>
     /\ val[1].sudoku_c <=> UnitsArePermutations(arg.b)
     /\ val[1].part_001 <=> UnitsArePermutations(arg.b)
     /\ val[1].sudoku_c <=> val[1].part_001

\* both tests accept a complete grid that is not the base grid
C38_Witness ==
  /\ arg.fn = "win" /\ Len(val) = 1
  /\ val[1].sudoku_c /\ val[1].part_001
  /\ arg.b \in SolvedGrids


(* ------------------------------- C39 -------------------------------------- *)

\* the step is a hint of either program
HintStep == on_hint_clicked \/ action_hint

\* C39 (as stated): after any sequence of player actions a hint changes the
\* playing grid only in one cell, which was an empty non-clue cell and now
\* holds a digit in 1..9, the one the solution had for that cell when the
\* puzzle was generated; on a clue or on a filled cell Hint changes nothing.
C39_HintGivesDealtSolution ==
  [][HintStep =>
       \E rc \in Cells :
          /\ ~IsClue(rc[1], rc[2])
          /\ PlayingGrid[rc[1]][rc[2]] = 0
          /\ PlayingGrid'[rc[1]][rc[2]] \in Digits
          /\ PlayingGrid'[rc[1]][rc[2]] = BaseGrid[rc[1] + 1][rc[2] + 1]
          /\ \A o \in Cells \ { rc } :
               PlayingGrid'[o[1]][o[2]] = PlayingGrid[o[1]][o[2]]]_vars

\* a hint of sudoku.c has left its cell empty and marked valid: the solution
\* it copied from was the grid a failed Solve had left there
C39_Witness ==
  /\ impl = "sudoku_c" /\ gpc = "play"
  /\ game.selected_row = 0 /\ game.selected_col = 1
  /\ game.grid[0][1] = 0 /\ game.validation[0][1] = 1
  /\ game.solution[0][1] = 0 /\ ~game.game_over

\* no hint of part_001 departs from the dealt solution
C39_Part001HintGivesDealtSolution ==
  [][action_hint =>
       \E rc \in Cells :
          /\ ~IsClue(rc[1], rc[2])
          /\ PlayingGrid[rc[1]][rc[2]] = 0
          /\ PlayingGrid'[rc[1]][rc[2]] = BaseGrid[rc[1] + 1][rc[2] + 1]]_vars

=============================================================================
